---- MODULE Spec2Model ----
(***************************************************************************)
(* Model of the pipeline-run ingestion service: the test matrix            *)
(* reconciler (utils/logs_util.py), the log error parser                   *)
(* (utils/logs_util.py), the archive flattener (utils/artifacts_util.py),  *)
(* the persistence adapter (database/push_data.py), the run boundary       *)
(* (utils/data_util.py), the performance metric locator                    *)
(* (utils/artifacts_util.py), the error annotator (utils/logs_util.py)     *)
(* and the connection manager (database/config.py).                        *)
(*                                                                         *)
(* Text is modelled as a sequence of tokens; a substring test is a test    *)
(* for a contiguous run of tokens.  A JSON value whose Python type matters *)
(* is a record [tag, val]: tag is the Python type, val its JSON text.      *)
(***************************************************************************)
EXTENDS Integers, Sequences, FiniteSets, TLC

VARIABLES
    \* ---- test matrix reconciler (generate_testcase_data)
    pipeline_data,    \* the actual-records argument
    metadata,         \* the metadata argument
    listing,          \* os.listdir of the combined-artifact directory
    data,             \* the mapping platform -> list of records being built
    valid_records,    \* the lookup (platform, TestcaseName) -> actual record
    rpc,              \* position in generate_testcase_data
    rcur,             \* <<platform index, record index>> of the merge loops
    \* ---- log error parser (parse_azure_pipeline_log)
    log_content,      \* the log text, a sequence of tokens
    errors,           \* the list of error spans being built
    ppc,              \* position in parse_azure_pipeline_log
    \* ---- archive flattener (process_artifact)
    artifact,         \* the artifact file: [valid, content]
    artifact_name,    \* the artifact's name
    fs,               \* the tree under the extraction directory: path -> node
    processed_files,  \* the set of paths process_file has seen
    out_file,         \* <artifact_name>.json in the output directory
    walk_stack,       \* os.walk of process_artifact: directories still to list
    walk_files,       \* os.walk of process_artifact: files of the listed directory
    contributed,      \* history: the paths whose fragment was appended, in order
    last_call,        \* history: the latest process_file call of process_artifact
    apc,              \* position in process_artifact
    \* ---- persistence adapter (push_data_to_specific_db)
    table,            \* the committed rows of grfxml_workloads
    txn,              \* the rows as the open transaction sees them
    records,          \* the list being pushed
    exists,           \* the result of the existence check
    next_record,      \* index of the record the loop is at
    written,          \* history: indexes of this push's committed writes
    failed,           \* history: indexes of this push's failed writes
    pushes,           \* number of pushes begun so far
    dpc,              \* position in push_data_to_specific_db
    \* ---- run boundary (process_run_data)
    zip_path,         \* the uploaded file: its suffix and what it holds
    data_dir,         \* the state of DATA_DIR
    steps,            \* history: the processing stages performed, in order
    xpc,              \* position in process_run_data
    \* ---- performance metric locator (fetch_performance_data)
    loc_architecture, \* the architecture argument
    loc_testcase,     \* the testcase_name argument
    combined_json_dir,\* the combined-artifact directory: [exists, files]
    combined_data,    \* the value returned
    lpc,              \* position in fetch_performance_data
    \* ---- error annotator (update_error_info)
    logs_dir,         \* os.listdir(LOGS_DIR): files as [name, errors], errors
                      \* the list parse_azure_pipeline_log returns for the file
    log_files,        \* the .txt files of the listing
    platform_order,   \* the order in which pipeline_data yields its keys
    given,            \* history: pipeline_data as passed to update_error_info
    ulog,             \* index of the log file the loop is at
    upc,              \* position in update_error_info
    \* ---- connection manager (DatabaseConnector)
    connections,      \* self._connections: IHV -> what the dictionary holds
    conn_result       \* the latest call on the connector and its outcome

rvars == <<pipeline_data, metadata, listing, data, valid_records, rpc, rcur>>

pvars == <<log_content, errors, ppc>>

avars == <<artifact, artifact_name, fs, processed_files, out_file,
           walk_stack, walk_files, contributed, last_call, apc>>

dvars == <<table, txn, records, exists, next_record, written, failed, pushes, dpc>>

xvars == <<zip_path, data_dir, steps, xpc>>

\* the variables of the components added to the four above
fvars == <<loc_architecture, loc_testcase, combined_json_dir, combined_data, lpc>>

uvars == <<logs_dir, log_files, platform_order, given, ulog, upc>>

cvars == <<connections, conn_result>>

ovars == <<xvars, fvars, uvars, cvars>>

vars == <<rvars, pvars, avars, dvars, ovars>>

\* everything but the variables of the run boundary
notx == <<rvars, pvars, avars, dvars, fvars, uvars, cvars>>

\* everything but the variables of the locator
notf == <<rvars, pvars, avars, dvars, xvars, uvars, cvars>>

\* everything update_error_info leaves alone
notu == <<metadata, listing, data, valid_records, rpc, rcur, pvars, avars, dvars, xvars, fvars,
          cvars>>

\* everything but the variables of the connection manager
notc == <<rvars, pvars, avars, dvars, xvars, fvars, uvars>>

-----------------------------------------------------------------------------
(* Text helpers *)

\* s[i..j] of Python slicing, 1-based and inclusive, empty when i > j
Slice(s, i, j) == [k \in 1..(j - i + 1) |-> s[i + k - 1]]

\* pat occurs in s at position i
MatchAt(s, pat, i) ==
    /\ i >= 1
    /\ i + Len(pat) - 1 <= Len(s)
    /\ \A k \in 1..Len(pat) : s[i + k - 1] = pat[k]

\* Python's  pat in s
Contains(s, pat) == \E i \in 1..(Len(s) + 1) : MatchAt(s, pat, i)

\* Python's  s.endswith(suffix)  for a one-token suffix
EndsWith(s, tok) == Len(s) >= 1 /\ s[Len(s)] = tok

RECURSIVE SplitFrom(_, _, _)
\* the segments of s from position i on, cut at every token sep
SplitFrom(s, sep, i) ==
    LET stops == {k \in i..Len(s) : s[k] = sep}
    IN  IF stops = {}
        THEN <<Slice(s, i, Len(s))>>
        ELSE LET k == CHOOSE x \in stops : \A y \in stops : x <= y
             IN  <<Slice(s, i, k - 1)>> \o SplitFrom(s, sep, k + 1)

\* Python's  s.split(sep)
Split(s, sep) == SplitFrom(s, sep, 1)

RECURSIVE ReplaceFrom(_, _, _)
\* s from position i on with every (non-overlapping, leftmost) pat removed
ReplaceFrom(s, pat, i) ==
    IF i > Len(s) THEN <<>>
    ELSE IF MatchAt(s, pat, i) THEN ReplaceFrom(s, pat, i + Len(pat))
    ELSE <<s[i]>> \o ReplaceFrom(s, pat, i + 1)

\* Python's  s.replace(pat, "")
Remove(s, pat) == ReplaceFrom(s, pat, 1)

-----------------------------------------------------------------------------
(* Configuration: utils/config_util.py *)

platforms == <<"x64_vitis", "x64_ov", "arm64_npu">>

models == << <<"qp">>, <<"embeddings", "_d3">>, <<"embeddings", "_d5">>,
             <<"embeddings", "_d3", "_c">>, <<"semtext">>, <<"srd">>, <<"llm">>,
             <<"ner">>, <<"tcm">>, <<"imdesc">> >>

tests == <<"Prediction", "Evaluation">>

build_id == "163518"

NA == "N/A"

-----------------------------------------------------------------------------
(* JSON values *)

StrVal(t)  == [tag |-> "str",  val |-> t]
DictVal(t) == [tag |-> "dict", val |-> t]
ListVal(t) == [tag |-> "list", val |-> t]

EmptyDict == DictVal("{}")

\* json.dumps of a dict: the same JSON text, now a str
JsonDumps(v) == [tag |-> "str", val |-> v.val]

\* isinstance(v, dict)
IsDict(v) == v.tag = "dict"

-----------------------------------------------------------------------------
(* Performance metric locator: utils/artifacts_util.py *)

\* the least element of a non-empty set of integers
Least(S) == CHOOSE x \in S : \A y \in S : x <= y

\* the greatest element of a non-empty set of integers
Greatest(S) == CHOOSE x \in S : \A y \in S : x >= y

\* fetch_performance_data returning the last match of the listing
fetch_performance_data_last(architecture, testcase_name, lst) ==
    IF ~Contains(testcase_name, <<".">>) THEN EmptyDict
    ELSE
      LET testcase_parts == Split(testcase_name, ".")
          model_name == Remove(testcase_parts[2], <<"Evaluation", "_">>)
          hits == {i \in 1..Len(lst.files) :
                     /\ EndsWith(lst.files[i].name, ".json")
                     /\ Contains(lst.files[i].name, <<architecture>>)
                     /\ Contains(lst.files[i].name, model_name)}
      IN  IF ~lst.exists THEN EmptyDict
          ELSE IF hits = {} THEN EmptyDict
          ELSE LET f == lst.files[Greatest(hits)]
               IN  IF f.content.tag = "bad" THEN EmptyDict
                   ELSE f.content

\* fetch_performance_data(architecture, testcase_name), reading the directory
\* listing lst = [exists, files], files a sequence of [name, content]
fetch_performance_data(architecture, testcase_name, lst) ==
    IF ~Contains(testcase_name, <<".">>) THEN EmptyDict
    ELSE
      LET testcase_parts == Split(testcase_name, ".")
          model_name == Remove(testcase_parts[2], <<"Evaluation", "_">>)
          hits == {i \in 1..Len(lst.files) :
                     /\ EndsWith(lst.files[i].name, ".json")
                     /\ Contains(lst.files[i].name, <<architecture>>)
                     /\ Contains(lst.files[i].name, model_name)}
      IN  IF ~lst.exists THEN EmptyDict
          ELSE IF hits = {} THEN EmptyDict
          ELSE LET f == lst.files[Least(hits)]
               IN  IF f.content.tag = "bad" THEN EmptyDict  \* json.load raised
                   ELSE f.content

-----------------------------------------------------------------------------
(* Test matrix reconciler: utils/logs_util.py, generate_testcase_data *)

PlatformSet == {platforms[i] : i \in 1..Len(platforms)}

\* line 141 with the evaluation pattern lost
TestcaseNameOnePattern(test, platform, model) ==
    <<test, "_Stage_", platform, ".", test, ".">> \o model

\* the f-string of line 141
TestcaseName(test, platform, model) ==
    IF test = "Prediction"
    THEN <<test, "_Stage_", platform, ".", test, ".">> \o model
    ELSE <<test, "_Stage_", platform, ".", test, "_">> \o model \o <<".", "__default">>

\* metadata.get(key, "N/A")
MetaGet(md, key) == IF key \in DOMAIN md.body THEN md.body[key] ELSE NA

\* the dict literal of lines 142-159
DefaultRecord(test, platform, model, md) ==
    [TestcaseName       |-> TestcaseName(test, platform, model),
     Architecture       |-> platform,
     PipelineRunID      |-> build_id,
     PipelineRunLink    |-> <<"https://devicesasg.visualstudio.com/PerceptiveShell/_build/results?buildId=",
                              build_id, "&view=results">>,
     Status             |-> "Skipped",
     TimeStamp          |-> NA,
     AgentName          |-> NA,
     ErrorType          |-> StrVal(NA),
     ErrorMessage       |-> NA,
     RepoName           |-> MetaGet(md, "repo_name"),
     RepoCommit         |-> MetaGet(md, "repo_commit"),
     RepoBranch         |-> MetaGet(md, "repo_branch"),
     TriggerType        |-> MetaGet(md, "trigger_type"),
     TriggeredBy        |-> MetaGet(md, "triggered_by"),
     Duration           |-> NA,
     PerformanceMetrics |-> StrVal("None")]

\* the records appended for one platform by the loops of lines 139-160:
\* models outermost, tests innermost
PlatformMatrix(platform, md) ==
    [k \in 1..(Len(models) * Len(tests)) |->
        DefaultRecord(tests[((k - 1) % Len(tests)) + 1], platform,
                      models[((k - 1) \div Len(tests)) + 1], md)]

\* record.update(other) with the placeholder's value winning
UpdateKeepOld(record, other) ==
    [f \in DOMAIN record \cup DOMAIN other |->
        IF f \in DOMAIN record THEN record[f] ELSE other[f]]

\* record.update(other)
Update(record, other) ==
    [f \in DOMAIN record \cup DOMAIN other |->
        IF f \in DOMAIN other THEN other[f] ELSE record[f]]

\* bool(pipeline_data): a non-empty dict (body) or a non-empty list (elems)
Truthy(pd) == IF pd.kind = "dict" THEN DOMAIN pd.body # {} ELSE Len(pd.elems) > 0

\* the entries of pipeline_data[platform] kept by the filter of line 168
ValidAt(pd, platform) ==
    {i \in 1..Len(pd.body[platform]) :
        /\ pd.body[platform][i].kind = "dict"
        /\ "TestcaseName" \in DOMAIN pd.body[platform][i].fields}

\* the dict comprehension of lines 164-169: a later entry with the same key
\* replaces an earlier one
ValidRecords(pd) ==
    LET allkeys == UNION {{<<p, pd.body[p][i].fields.TestcaseName>> : i \in ValidAt(pd, p)} :
                          p \in DOMAIN pd.body}
    IN  [key \in allkeys |->
            LET p == key[1]
                last == CHOOSE i \in ValidAt(pd, p) :
                          /\ pd.body[p][i].fields.TestcaseName = key[2]
                          /\ \A j \in ValidAt(pd, p) :
                               pd.body[p][j].fields.TestcaseName = key[2] => j <= i
            IN  pd.body[p][last].fields]

\* the value of a TestcaseName field is a list rather than a string
Unhashable(name) == Len(name) >= 1 /\ name[1] = "["

\* a platform's value that is JSON null: every platform value is held as a
\* list, and null as the list of the one marker entry of kind "null"
NullRecords == <<[kind |-> "null", fields |-> [junk |-> "x"]]>>

\* line 167, for record in records: the value can be iterated
Iterable(value) == value # NullRecords

\* the dict comprehension of lines 164-169 raises TypeError: a platform's
\* value cannot be iterated (line 167), or a record that passes the filter
\* of line 168 has an unhashable TestcaseName (line 165)
LookupRaises(pd) ==
    \E p \in DOMAIN pd.body :
        \/ ~Iterable(pd.body[p])
        \/ \E i \in ValidAt(pd, p) : Unhashable(pd.body[p][i].fields.TestcaseName)

\* lines 175-181 with the Status test of line 177 lost
MergeOneAnyStatus(record, actual, lst) ==
    LET r1 == Update(record, actual)
        r2 == IF Contains(r1.TestcaseName, <<"Evaluation">>)
              THEN [r1 EXCEPT !.PerformanceMetrics =
                       fetch_performance_data(r1.Architecture, r1.TestcaseName, lst)]
              ELSE r1
    IN  IF IsDict(r2.PerformanceMetrics)
        THEN [r2 EXCEPT !.PerformanceMetrics = JsonDumps(r2.PerformanceMetrics)]
        ELSE r2

\* lines 175-181 applied to one placeholder whose key is in the lookup
MergeOne(record, actual, lst) ==
    LET r1 == Update(record, actual)
        r2 == IF r1.Status = "succeeded" /\ Contains(r1.TestcaseName, <<"Evaluation">>)
              THEN [r1 EXCEPT !.PerformanceMetrics =
                       fetch_performance_data(r1.Architecture, r1.TestcaseName, lst)]
              ELSE r1
    IN  IF IsDict(r2.PerformanceMetrics)
        THEN [r2 EXCEPT !.PerformanceMetrics = JsonDumps(r2.PerformanceMetrics)]
        ELSE r2

(* Inputs of the reconciler *)

\* the longest list of actual records given for one platform
MaxRecords == 2

EvalQpOv == TestcaseName("Evaluation", "x64_ov", <<"qp">>)
PredQpOv == TestcaseName("Prediction", "x64_ov", <<"qp">>)

DictEntry(f) == [kind |-> "dict", fields |-> f]

\* the actual records a platform's list is drawn from
EntryPool ==
    { DictEntry([TestcaseName |-> EvalQpOv, Status |-> "succeeded", Duration |-> "12s"]),
      DictEntry([TestcaseName |-> EvalQpOv, Status |-> "failed",
                 PerformanceMetrics |-> DictVal("{own}")]),
      DictEntry([TestcaseName |-> EvalQpOv, Status |-> "succeeded", id |-> "12"]),
      DictEntry([TestcaseName |-> PredQpOv, Status |-> "succeeded", AgentName |-> "agent7"]),
      DictEntry([TestcaseName |-> PredQpOv, Status |-> "succeeded",
                 PerformanceMetrics |-> StrVal("own text")]),
      DictEntry([TestcaseName |-> <<"Other">>, Status |-> "succeeded"]),
      DictEntry([Status |-> "succeeded"]),
      [kind |-> "other", fields |-> [junk |-> "x"]] }

RECURSIVE SeqsUpTo(_, _)
\* the sequences over S of length at most n
SeqsUpTo(S, n) ==
    IF n = 0 THEN {<<>>}
    ELSE LET shorter == SeqsUpTo(S, n - 1)
         IN  shorter \cup {Append(q, x) : q \in shorter, x \in S}

\* a record whose TestcaseName is a JSON list, which cannot be a dict key
UnhashableEntry == DictEntry([TestcaseName |-> <<"[", "qp", "]">>, Status |-> "succeeded"])

NpuList ==
    << DictEntry([TestcaseName |-> TestcaseName("Evaluation", "arm64_npu", <<"embeddings", "_d3">>),
                  Status |-> "succeeded"]) >>

\* a dict with no keys
NoKeys == [k \in {} |-> <<>>]

PipelineDataPool ==
    {[kind |-> "dict", body |-> NoKeys, elems |-> <<>>],
     [kind |-> "list", body |-> NoKeys, elems |-> <<>>],
     [kind |-> "list", body |-> NoKeys, elems |-> NpuList]}
    \cup {[kind |-> "dict", body |-> [p \in {"x64_ov"} |-> q], elems |-> <<>>] :
             q \in SeqsUpTo(EntryPool, MaxRecords)}
    \cup {[kind |-> "dict", elems |-> <<>>,
           body |-> [p \in {"x64_ov", "arm64_npu"} |-> IF p = "x64_ov" THEN q ELSE NpuList]] :
             q \in SeqsUpTo(EntryPool, 1)}
    \cup {[kind |-> "dict", elems |-> <<>>,
           body |-> [p \in {"x64_ov"} |->
                      << DictEntry([TestcaseName |-> EvalQpOv, Status |-> "succeeded",
                                    Duration |-> "12s"]),
                         UnhashableEntry >>]]}
    \cup {[kind |-> "dict", elems |-> <<>>,
           body |-> [p \in {"x64_ov", "arm64_npu"} |->
                      IF p = "x64_ov" THEN q ELSE NullRecords]] :
             q \in SeqsUpTo(EntryPool, 1)}

MetadataPool ==
    {[kind |-> "dict", body |-> NoKeys],
     [kind |-> "dict", body |-> [repo_name |-> "PerceptiveShell", trigger_type |-> "manual"]],
     [kind |-> "list", body |-> NoKeys]}

File(name, content) == [name |-> name, content |-> content]

ListingPool ==
    {[exists |-> FALSE, files |-> <<>>],
     [exists |-> TRUE, files |->
        << File(<<"x64_ov", "_", "qp", ".json">>, ListVal("[ov-qp]")),
           File(<<"arm64_npu", "_", "embeddings", "_d3", "_c", ".json">>, DictVal("{npu-d3c}")) >>],
     [exists |-> TRUE, files |->
        << File(<<"x64_ov", "_", "qp", ".json">>, [tag |-> "bad", val |-> ""]),
           File(<<"x64_ov", "_", "qp", "_2", ".json">>, ListVal("[ov-qp2]")) >>]}

-----------------------------------------------------------------------------
(* generate_testcase_data as a state machine *)

\* the run boundary before any call
XIdle ==
    /\ zip_path = [suffix |-> FALSE, archive |-> "corrupt", logs |-> "absent",
                   artifacts |-> "absent"]
    /\ data_dir = "absent"
    /\ steps = <<>>
    /\ xpc = "idle"

\* the locator before any call
FIdle ==
    /\ loc_architecture = ""
    /\ loc_testcase = <<>>
    /\ combined_json_dir = [exists |-> FALSE, files |-> <<>>]
    /\ combined_data = [tag |-> "none", val |-> ""]
    /\ lpc = "idle"

\* the annotator before any call
UIdle ==
    /\ logs_dir = <<>>
    /\ log_files = <<>>
    /\ platform_order = <<>>
    /\ given = [kind |-> "dict", body |-> NoKeys, elems |-> <<>>]
    /\ ulog = 1
    /\ upc = "idle"

\* the keys of DB_HOSTS (database/constants.py)
DB_HOSTS == {"Cadmus", "LNL", "STRX"}

\* the connection manager as constructed (line 17)
CIdle ==
    /\ connections = [ihv \in DB_HOSTS |-> "absent"]
    /\ conn_result = [op |-> "none", ihv |-> "", outcome |-> "", state |-> ""]

\* the added components before any call
OIdle == XIdle /\ FIdle /\ UIdle /\ CIdle

\* the persistence adapter before any call
DIdle ==
    /\ table = {}
    /\ txn = {}
    /\ records = <<>>
    /\ exists = FALSE
    /\ next_record = 1
    /\ written = {}
    /\ failed = {}
    /\ pushes = 0
    /\ dpc = "idle"

\* the flattener before any call
AIdle ==
    /\ artifact = [kind |-> "notzip", content |-> NoKeys]
    /\ artifact_name = <<>>
    /\ fs = NoKeys
    /\ processed_files = {}
    /\ out_file = [exists |-> FALSE, frags |-> <<>>]
    /\ walk_stack = <<>>
    /\ walk_files = <<>>
    /\ contributed = <<>>
    /\ last_call = [path |-> <<>>, seen |-> FALSE, frags |-> <<>>]
    /\ apc = "idle"

\* the parser before any call
PIdle ==
    /\ log_content = <<>>
    /\ errors = <<>>
    /\ ppc = "idle"

RInit ==
    /\ OIdle
    /\ PIdle
    /\ AIdle
    /\ DIdle
    /\ pipeline_data \in PipelineDataPool
    /\ metadata \in MetadataPool
    /\ listing \in ListingPool
    /\ data = [p \in PlatformSet |-> <<>>]          \* line 134
    /\ valid_records = NoKeys
    /\ rpc = "start"
    /\ rcur = <<1, 1>>

\* the reconciler before any call
RIdle ==
    /\ pipeline_data = [kind |-> "dict", body |-> NoKeys, elems |-> <<>>]
    /\ metadata = [kind |-> "dict", body |-> NoKeys]
    /\ listing = [exists |-> FALSE, files |-> <<>>]
    /\ data = [p \in PlatformSet |-> <<>>]
    /\ valid_records = NoKeys
    /\ rpc = "idle"
    /\ rcur = <<1, 1>>

\* lines 138-160 outside the try of line 136
BuildMatrixUncaught ==
    /\ rpc = "start"
    /\ IF metadata.kind = "dict"
       THEN /\ data' = [p \in PlatformSet |-> PlatformMatrix(p, metadata)]
            /\ rpc' = "matrix"
       ELSE /\ data' = data
            /\ rpc' = "raised"
    /\ UNCHANGED <<pipeline_data, metadata, listing, valid_records, rcur, pvars, avars, dvars, ovars>>

\* lines 138-160: the placeholder matrix
BuildMatrix ==
    /\ rpc = "start"
    /\ IF metadata.kind = "dict"
       THEN /\ data' = [p \in PlatformSet |-> PlatformMatrix(p, metadata)]
            /\ rpc' = "matrix"
       ELSE /\ data' = data                            \* metadata.get raised
            /\ rpc' = "done"
    /\ UNCHANGED <<pipeline_data, metadata, listing, valid_records, rcur, pvars, avars, dvars, ovars>>

\* lines 162-169: the lookup of actual records
BuildLookup ==
    /\ rpc = "matrix"
    /\ IF ~Truthy(pipeline_data) THEN
            /\ rpc' = "done"
            /\ UNCHANGED valid_records
       ELSE IF pipeline_data.kind # "dict" THEN       \* .items() raised
            /\ rpc' = "done"
            /\ UNCHANGED valid_records
       ELSE IF LookupRaises(pipeline_data) THEN       \* TypeError, line 184
            /\ rpc' = "done"
            /\ UNCHANGED valid_records
       ELSE /\ valid_records' = ValidRecords(pipeline_data)
            /\ rpc' = "merge"
    /\ UNCHANGED <<pipeline_data, metadata, listing, data, rcur, pvars, avars, dvars, ovars>>

\* lines 171-181 for the record under the cursor
MergeRecord ==
    /\ rpc = "merge"
    /\ LET platform == platforms[rcur[1]]
           record == data[platform][rcur[2]]
           key == <<platform, record.TestcaseName>>
       IN  /\ data' = IF key \in DOMAIN valid_records
                      THEN [data EXCEPT ![platform][rcur[2]] =
                               MergeOne(record, valid_records[key], listing)]
                      ELSE data
           /\ IF rcur[2] < Len(data[platform]) THEN
                   /\ rcur' = <<rcur[1], rcur[2] + 1>>
                   /\ rpc' = rpc
              ELSE IF rcur[1] < Len(platforms) THEN
                   /\ rcur' = <<rcur[1] + 1, 1>>
                   /\ rpc' = rpc
              ELSE /\ rcur' = rcur
                   /\ rpc' = "done"
    /\ UNCHANGED <<pipeline_data, metadata, listing, valid_records, pvars, avars, dvars, ovars>>

RNext == BuildMatrix \/ BuildLookup \/ MergeRecord

SpecReconcile == RInit /\ [][RNext]_vars

-----------------------------------------------------------------------------
(* Properties of the reconciler *)

\* the test-case name the specification gives for a matrix cell
ExpectedName(test, platform, model) ==
    IF test = "Prediction"
    THEN <<"Prediction", "_Stage_", platform, ".", "Prediction", ".">> \o model
    ELSE <<"Evaluation", "_Stage_", platform, ".", "Evaluation", "_">> \o model
             \o <<".", "__default">>

\* the names of one platform's cells: one per (model, phase) pair, all
\* different, so a list of that many records holding exactly these names
\* holds each of them once
ExpectedNames(platform) ==
    {ExpectedName(tests[t], platform, models[m]) : m \in 1..Len(models), t \in 1..Len(tests)}

\* every record of the mapping being built, as <<platform, index>>
Cells == {<<p, k>> \in PlatformSet \X (1..(Len(models) * Len(tests) + 1)) : k <= Len(data[p])}

\* the placeholder the matrix holds at <<platform, index>> before any merge
PlaceholderAt(p, k) ==
    [TestcaseName       |-> data[p][k].TestcaseName,
     Architecture       |-> p,
     PipelineRunID      |-> build_id,
     PipelineRunLink    |-> <<"https://devicesasg.visualstudio.com/PerceptiveShell/_build/results?buildId=",
                              build_id, "&view=results">>,
     Status             |-> "Skipped",
     TimeStamp          |-> "N/A",
     AgentName          |-> "N/A",
     ErrorType          |-> StrVal("N/A"),
     ErrorMessage       |-> "N/A",
     RepoName           |-> IF "repo_name" \in DOMAIN metadata.body
                            THEN metadata.body["repo_name"] ELSE "N/A",
     RepoCommit         |-> IF "repo_commit" \in DOMAIN metadata.body
                            THEN metadata.body["repo_commit"] ELSE "N/A",
     RepoBranch         |-> IF "repo_branch" \in DOMAIN metadata.body
                            THEN metadata.body["repo_branch"] ELSE "N/A",
     TriggerType        |-> IF "trigger_type" \in DOMAIN metadata.body
                            THEN metadata.body["trigger_type"] ELSE "N/A",
     TriggeredBy        |-> IF "triggered_by" \in DOMAIN metadata.body
                            THEN metadata.body["triggered_by"] ELSE "N/A",
     Duration           |-> "N/A",
     PerformanceMetrics |-> StrVal("None")]

\* the well-formed actual records given for platform p under test-case name n,
\* as indexes into pipeline_data[p]
ActualsFor(p, n) ==
    IF pipeline_data.kind = "dict" /\ p \in DOMAIN pipeline_data.body
    THEN {i \in 1..Len(pipeline_data.body[p]) :
            /\ pipeline_data.body[p][i].kind = "dict"
            /\ "TestcaseName" \in DOMAIN pipeline_data.body[p][i].fields
            /\ pipeline_data.body[p][i].fields.TestcaseName = n}
    ELSE {}

\* C1: once the placeholder matrix is built (mapping-shaped metadata), each
\* platform holds exactly one record per (model, phase) pair, named by the
\* two patterns, |platforms| x |models| x |phases| records in all, at every
\* later point of the run; with empty actual input all of them are "Skipped".
C1_MatrixComplete ==
    (metadata.kind = "dict" /\ rpc # "start") =>
        /\ \A p \in PlatformSet :
              /\ Len(data[p]) = Len(models) * Len(tests)
              /\ Cardinality(ExpectedNames(p)) = Len(models) * Len(tests)
              /\ {data[p][k].TestcaseName : k \in 1..Len(data[p])} = ExpectedNames(p)
        /\ Len(data["x64_vitis"]) + Len(data["x64_ov"]) + Len(data["arm64_npu"])
              = Len(platforms) * Len(models) * Len(tests)
        /\ ~Truthy(pipeline_data) =>
              \A p \in PlatformSet : \A k \in 1..Len(data[p]) : data[p][k].Status = "Skipped"

\* C1 witness: a finished run over non-empty actual input that merged a record
C1_Witness ==
    /\ rpc = "done"
    /\ metadata.kind = "dict"
    /\ pipeline_data.kind = "dict"
    /\ \E c \in Cells : data[c[1]][c[2]].Status = "succeeded"

\* C2 as claimed: in the finished output, every actual record whose key
\* matches a placeholder has all its fields in the output record, the other
\* fields are the placeholder's, and unmatched placeholders are unchanged.
C2_Original ==
    rpc = "done" =>
      \A c \in Cells :
        LET r == data[c[1]][c[2]]
            hits == ActualsFor(c[1], r.TestcaseName)
            ph == PlaceholderAt(c[1], c[2])
        IN  /\ hits = {} => r = ph
            /\ \A i \in hits :
                 LET a == pipeline_data.body[c[1]][i].fields
                 IN  /\ \A f \in DOMAIN a : r[f] = a[f]
                     /\ \A f \in DOMAIN ph \ DOMAIN a : r[f] = ph[f]

\* the lookup of actual records could not be built
LookupFailed ==
    Truthy(pipeline_data) /\ (pipeline_data.kind # "dict" \/ LookupRaises(pipeline_data))

\* the PerformanceMetrics value of a record as the merge alone leaves it:
\* the merged actual record's own value, a dict serialized, or the
\* placeholder's when no record is merged or the merged one defines none
MergedMetrics(p, n) ==
    LET hits == IF LookupFailed THEN {} ELSE ActualsFor(p, n)
        own == IF hits # {} /\ "PerformanceMetrics" \in
                     DOMAIN pipeline_data.body[p][Greatest(hits)].fields
               THEN pipeline_data.body[p][Greatest(hits)].fields.PerformanceMetrics
               ELSE StrVal("None")
    IN  IF own.tag = "dict" THEN StrVal(own.val) ELSE own

\* the locator's result for a record, a dict serialized
LocatedMetrics(r) ==
    LET found == fetch_performance_data(r.Architecture, r.TestcaseName, listing)
    IN  IF found.tag = "dict" THEN StrVal(found.val) ELSE found

\* the name of a record denotes an evaluation phase
EvaluationName(r) == \E i \in 1..Len(r.TestcaseName) : r.TestcaseName[i] = "Evaluation"

\* C2 amended: when the lookup of actual records is built, the last actual
\* record given for a placeholder's key is the one merged: every field it
\* defines other than PerformanceMetrics is its value, every placeholder
\* field it does not define other than PerformanceMetrics is unchanged, and
\* PerformanceMetrics is the locator's result when the merged Status is
\* "succeeded" and the name is an evaluation name, and otherwise the actual
\* record's own value or, when it defines none, the placeholder's, a dict
\* serialized in both cases.  Placeholders matching no actual record are
\* unchanged, and so is every placeholder when the lookup is not built.
C2_MergeFrame ==
    rpc = "done" =>
      \A c \in Cells :
        LET r == data[c[1]][c[2]]
            hits == ActualsFor(c[1], r.TestcaseName)
            ph == PlaceholderAt(c[1], c[2])
        IN  IF LookupFailed \/ hits = {}
            THEN r = ph
            ELSE LET a == pipeline_data.body[c[1]][Greatest(hits)].fields
                 IN  /\ DOMAIN r = DOMAIN ph \cup DOMAIN a
                     /\ \A f \in DOMAIN a \ {"PerformanceMetrics"} : r[f] = a[f]
                     /\ \A f \in DOMAIN ph \ (DOMAIN a \cup {"PerformanceMetrics"}) :
                           r[f] = ph[f]
                     /\ r.PerformanceMetrics =
                           IF r.Status = "succeeded" /\ EvaluationName(r)
                           THEN LocatedMetrics(r)
                           ELSE MergedMetrics(c[1], r.TestcaseName)

\* C2 witness: a finished run in which a placeholder took a field from an
\* actual record and kept the others
C2_Witness ==
    /\ rpc = "done"
    /\ \E c \in Cells :
          /\ data[c[1]][c[2]].Duration = "12s"
          /\ data[c[1]][c[2]].Status = "succeeded"
          /\ data[c[1]][c[2]].AgentName = "N/A"

\* C3 as claimed: in the reconciled output a record carries a
\* performance-metrics payload (a PerformanceMetrics other than the
\* placeholder's 'None') only if its Status is "succeeded" and its name
\* denotes an evaluation phase.
C3_Original ==
    rpc = "done" =>
      \A c \in Cells :
        LET r == data[c[1]][c[2]]
        IN  r.PerformanceMetrics # StrVal("None") =>
              /\ r.Status = "succeeded"
              /\ EvaluationName(r)

\* C3 amended: in the reconciled output a record's PerformanceMetrics differs
\* from what the merge alone leaves (it was given a payload by the locator)
\* only if its Status is "succeeded" and its name holds "Evaluation"; every
\* other record holds the actual record's own PerformanceMetrics or,
\* when it defines none, the placeholder's.
C3_MetricsOnlyOnSuccess ==
    rpc = "done" =>
      \A c \in Cells :
        LET r == data[c[1]][c[2]]
        IN  r.PerformanceMetrics # MergedMetrics(c[1], r.TestcaseName) =>
              /\ r.Status = "succeeded"
              /\ \E i \in 1..Len(r.TestcaseName) : r.TestcaseName[i] = "Evaluation"

\* C3 witness: a finished run with a failed evaluation record for which a
\* matching artifact file exists, and a succeeded one that got the payload
C3_Witness ==
    /\ rpc = "done"
    /\ listing.exists
    /\ \E c \in Cells :
          /\ data[c[1]][c[2]].Status = "failed"
          /\ data[c[1]][c[2]].TestcaseName = ExpectedName("Evaluation", "x64_ov", <<"qp">>)
          /\ \E i \in 1..Len(listing.files) :
                /\ listing.files[i].name = <<"x64_ov", "_", "qp", ".json">>
                /\ listing.files[i].content.tag = "list"
                /\ data[c[1]][c[2]].PerformanceMetrics # listing.files[i].content
    /\ \E c \in Cells : data[c[1]][c[2]].PerformanceMetrics = StrVal("{npu-d3c}")

\* C13: generate_testcase_data never raises: every call ends by returning a
\* mapping with every configured platform as key, holding what was built up
\* to the point of failure: nothing when the metadata is not a mapping, the
\* untouched placeholder matrix when the lookup of actual records fails, the
\* whole matrix in every other case.
C13_NeverRaises ==
    /\ rpc # "raised"
    /\ DOMAIN data = PlatformSet
    /\ rpc = "done" =>
          \A p \in PlatformSet :
             /\ metadata.kind # "dict" => data[p] = <<>>
             /\ metadata.kind = "dict" => Len(data[p]) = Len(models) * Len(tests)
             /\ (metadata.kind = "dict" /\ LookupFailed) =>
                    \A k \in 1..Len(data[p]) : data[p][k] = PlaceholderAt(p, k)

\* a call given metadata that is not a mapping has returned
C13_Witness ==
    /\ rpc = "done"
    /\ metadata.kind = "list"
    /\ data["x64_ov"] = <<>>

-----------------------------------------------------------------------------
(* Log error parser: utils/logs_util.py, parse_azure_pipeline_log          *)
(*                                                                         *)
(* A log text is a sequence of tokens:                                     *)
(*   [k |-> "ts", sec, ok, frac]  a timestamp YYYY-MM-DDTHH:MM:SS.<frac>Z; *)
(*        sec orders the date and time to the second, ok says whether      *)
(*        every date and time field is in range, frac is the digit string  *)
(*   [k |-> "ado"]                the marker " ##[error]"                  *)
(*   [k |-> "py", w]              an error keyword with its colon          *)
(*   [k |-> "text", w]            text holding no keyword and no date      *)
(*   [k |-> "ws", w]              white space                              *)
(***************************************************************************)

\* the keys of python_error_patterns, in the dict's order (lines 22-33)
python_error_types ==
    <<"Traceback", "ValueError", "IndexError", "AssertionError", "AttributeError",
      "ImportError", "KeyError", "NameError", "MemoryError", "TypeError">>

\* the date and time of 9999-12-31T23:59:59, the greatest a text can hold
TopSecond == 2

DigitVal == [d \in {"0", "1", "2", "3", "4", "5", "6", "7", "8", "9"} |->
               CASE d = "0" -> 0 [] d = "1" -> 1 [] d = "2" -> 2 [] d = "3" -> 3
                 [] d = "4" -> 4 [] d = "5" -> 5 [] d = "6" -> 6 [] d = "7" -> 7
                 [] d = "8" -> 8 [] d = "9" -> 9]

\* the length of "YYYY-MM-DDTHH:MM:SS"
DateTimeLen == 19

\* the slice bound of lines 43 and 64
TruncateAt == 26

\* a datetime as microseconds; datetime.max is the last microsecond of TopSecond
Micros(sec, micro) == sec * 1000000 + micro

DatetimeMax == Micros(TopSecond, 999999)

None == [has |-> FALSE, t |-> 0]
Some(t) == [has |-> TRUE, t |-> t]

RECURSIVE FracMicros(_, _)
\* %f: the digits read as a fraction of a second, in microseconds
FracMicros(digits, weight) ==
    IF digits = <<>> THEN 0
    ELSE DigitVal[Head(digits)] * weight + FracMicros(Tail(digits), weight \div 10)

\* the characters of a timestamp after its date and time
TsTail(tok) == <<".">> \o tok.frac \o <<"Z">>

\* lines 43-44 with the fraction cut to three digits
ParseTimestampMillis(tok) ==
    LET digits == Slice(tok.frac, 1, IF Len(tok.frac) < 3 THEN Len(tok.frac) ELSE 3)
    IN  IF tok.ok /\ Len(tok.frac) >= 6
        THEN Some(Micros(tok.sec, FracMicros(digits, 100000)))
        ELSE None

\* lines 43-44 (and 64-65): raw[:26] + "Z", its last character dropped, then
\* strptime with "%Y-%m-%dT%H:%M:%S.%f"; None stands for the ValueError
ParseTimestamp(tok) ==
    LET tail == TsTail(tok)
        kept == Slice(tail, 1, IF Len(tail) < TruncateAt - DateTimeLen
                               THEN Len(tail) ELSE TruncateAt - DateTimeLen)
        truncated == kept \o <<"Z">>
        parsed == Slice(truncated, 1, Len(truncated) - 1)
        digits == Slice(parsed, 2, Len(parsed))
    IN  IF /\ tok.ok
           /\ Len(digits) >= 1 /\ Len(digits) <= 6
           /\ \A i \in 1..Len(digits) : digits[i] \in DOMAIN DigitVal
        THEN Some(Micros(tok.sec, FracMicros(digits, 100000)))
        ELSE None

IsTs(tok) == tok.k = "ts"

\* the end of a span starting at i: the position before the next date, or
\* the end of the text (the lookahead of every pattern)
SpanEnd(text, i) ==
    LET stops == {j \in (i + 1)..Len(text) : IsTs(text[j])}
    IN  IF stops = {} THEN Len(text) ELSE Least(stops) - 1

\* a token that is not a timestamp
Tok(k, w) == [k |-> k, w |-> w, sec |-> 0, ok |-> TRUE, frac |-> <<>>]

RECURSIVE Strip(_)
\* str.strip(): the white space at both ends is removed, the blank that
\* begins a marker included (what is left of the marker is plain text)
Strip(s) ==
    IF s = <<>> THEN s
    ELSE IF s[1].k = "ws" THEN Strip(Tail(s))
    ELSE IF s[1].k = "ado" THEN Strip(<<Tok("text", "##[error]")>> \o Tail(s))
    ELSE IF s[Len(s)].k = "ws" THEN Strip(Slice(s, 1, Len(s) - 1))
    ELSE s

RECURSIVE AdoFrom(_, _)
\* lines 39-51: the bracketed-error matches from position i on
AdoFrom(text, i) ==
    IF i >= Len(text) THEN <<>>
    ELSE IF IsTs(text[i]) /\ text[i + 1].k = "ado"
    THEN LET e == SpanEnd(text, i)
             timestamp == ParseTimestamp(text[i])
             found == IF timestamp.has
                      THEN <<[timestamp |-> timestamp,
                              message |-> Strip(Slice(text, i + 2, e)),
                              error_type |-> "ADO Error"]>>
                      ELSE <<>>                     \* the except of line 50
         IN  found \o AdoFrom(text, e + 1)
    ELSE AdoFrom(text, i + 1)

\* re.search(timestamp_pattern, log_content[:start]): the first timestamp
\* that lies before position start
TimestampBefore(text, start) ==
    LET before == {j \in 1..(start - 1) : IsTs(text[j])}
    IN  IF before = {} THEN None ELSE ParseTimestamp(text[Least(before)])

RECURSIVE PyFrom(_, _, _)
\* lines 55-73: the matches of one error kind from position i on
PyFrom(text, error_type, i) ==
    IF i > Len(text) THEN <<>>
    ELSE IF text[i].k = "py" /\ text[i].w = error_type
    THEN LET e == SpanEnd(text, i)
         IN  <<[timestamp |-> TimestampBefore(text, i),
                message |-> Strip(Slice(text, i, e)),
                error_type |-> error_type]>> \o PyFrom(text, error_type, e + 1)
    ELSE PyFrom(text, error_type, i + 1)

RECURSIVE PyAll(_, _)
\* line 54: the error kinds in the dict's order, from kind number n on
PyAll(text, n) ==
    IF n > Len(python_error_types) THEN <<>>
    ELSE PyFrom(text, python_error_types[n], 1) \o PyAll(text, n + 1)

\* the sort key of line 79
SortKey(x) == IF x.timestamp.has THEN x.timestamp.t ELSE DatetimeMax

\* x put into the sorted list s after every element whose key is not greater
InsertSorted(s, x) ==
    LET later == {i \in 1..Len(s) : SortKey(s[i]) > SortKey(x)}
        at == IF later = {} THEN Len(s) + 1 ELSE Least(later)
    IN  Slice(s, 1, at - 1) \o <<x>> \o Slice(s, at, Len(s))

RECURSIVE SortErrors(_)
\* list.sort(key=...) of line 79: ascending and stable
SortErrors(s) ==
    IF s = <<>> THEN s
    ELSE InsertSorted(SortErrors(Slice(s, 1, Len(s) - 1)), s[Len(s)])

-----------------------------------------------------------------------------
(* parse_azure_pipeline_log as a state machine *)

\* the longest log text, in tokens
MaxTokens == 4

Ts(sec, ok, frac) == [k |-> "ts", w |-> "", sec |-> sec, ok |-> ok, frac |-> frac]

Ts6     == Ts(1, TRUE, <<"1", "2", "3", "4", "5", "6">>)
Ts7     == Ts(0, TRUE, <<"0", "0", "0", "0", "0", "1", "9">>)
Ts3     == Ts(1, TRUE, <<"1", "2", "3">>)
TsRange == Ts(1, FALSE, <<"1", "2", "3", "4", "5", "6">>)
TsTop   == Ts(TopSecond, TRUE, <<"9", "9", "9", "9", "9", "9">>)

TokenPool ==
    {Ts6, Ts7, Ts3, TsRange, TsTop,
     Tok("ado", " ##[error]"),
     Tok("py", "Traceback"), Tok("py", "ValueError"),
     Tok("text", "disk full"), Tok("ws", "\n")}

PInit ==
    /\ OIdle
    /\ RIdle
    /\ AIdle
    /\ DIdle
    /\ log_content \in SeqsUpTo(TokenPool, MaxTokens)
    /\ errors = <<>>                                   \* line 35
    /\ ppc = "start"

\* lines 39-51: the bracketed-error pass
AdoPass ==
    /\ ppc = "start"
    /\ errors' = errors \o AdoFrom(log_content, 1)
    /\ ppc' = "ado"
    /\ UNCHANGED <<log_content, rvars, avars, dvars, ovars>>

\* lines 54-73: the stack-trace pass
PythonPass ==
    /\ ppc = "ado"
    /\ errors' = errors \o PyAll(log_content, 1)
    /\ ppc' = "py"
    /\ UNCHANGED <<log_content, rvars, avars, dvars, ovars>>

\* lines 79-82: the sort and the return
SortAndReturn ==
    /\ ppc = "py"
    /\ errors' = SortErrors(errors)
    /\ ppc' = "done"
    /\ UNCHANGED <<log_content, rvars, avars, dvars, ovars>>

PNext == AdoPass \/ PythonPass \/ SortAndReturn

SpecParse == PInit /\ [][PNext]_vars

-----------------------------------------------------------------------------
(* Properties of the parser *)

\* C6 as claimed: the returned list is ascending by timestamp and no span
\* without a timestamp comes before a span that has one.
C6_SortedNoneLast ==
    ppc = "done" =>
      \A i \in 1..Len(errors), j \in 1..Len(errors) :
        i < j =>
          /\ (errors[i].timestamp.has /\ errors[j].timestamp.has)
                => errors[i].timestamp.t <= errors[j].timestamp.t
          /\ ~(~errors[i].timestamp.has /\ errors[j].timestamp.has)

\* the text is one bracketed-error line: a timestamp with six fractional
\* digits and in-range fields, the marker, and a message of plain text
OneAdoLine ==
    /\ Len(log_content) >= 3
    /\ log_content[1].k = "ts"
    /\ log_content[1].ok
    /\ Len(log_content[1].frac) = 6
    /\ log_content[2].k = "ado"
    /\ \A i \in 3..Len(log_content) : log_content[i].k \in {"text", "ws"}
    /\ \E i \in 3..Len(log_content) : log_content[i].k = "text"

\* the message of the line: the text after the marker without the white
\* space around it
OneAdoLineMessage ==
    LET inner == {i \in 3..Len(log_content) : log_content[i].k = "text"}
    IN  [k \in 1..(Greatest(inner) - Least(inner) + 1) |-> log_content[Least(inner) + k - 1]]

\* C7 as claimed: one span, ADO error, the stripped message, and the
\* timestamp cut to milliseconds (.123456 read as .123).
C7_Original ==
    (ppc = "done" /\ OneAdoLine) =>
        LET f == log_content[1].frac
        IN  /\ Len(errors) = 1
            /\ errors[1].error_type = "ADO Error"
            /\ errors[1].message = OneAdoLineMessage
            /\ errors[1].timestamp.has
            /\ errors[1].timestamp.t = log_content[1].sec * 1000000
                  + (DigitVal[f[1]] * 100 + DigitVal[f[2]] * 10 + DigitVal[f[3]]) * 1000

\* C7 amended: as claimed, but the timestamp keeps all six fractional digits
\* (microsecond width: .123456 is read as .123456).
C7_OneAdoLine ==
    (ppc = "done" /\ OneAdoLine) =>
        LET f == log_content[1].frac
        IN  /\ Len(errors) = 1
            /\ errors[1].error_type = "ADO Error"
            /\ errors[1].message = OneAdoLineMessage
            /\ errors[1].timestamp.has
            /\ errors[1].timestamp.t = log_content[1].sec * 1000000
                  + DigitVal[f[1]] * 100000 + DigitVal[f[2]] * 10000 + DigitVal[f[3]] * 1000
                  + DigitVal[f[4]] * 100 + DigitVal[f[5]] * 10 + DigitVal[f[6]]

\* C7 witness: the line "<date>.123456Z ##[error]disk full\n" parsed to one span
C7_Witness ==
    /\ ppc = "done"
    /\ log_content = <<Ts6, Tok("ado", " ##[error]"), Tok("text", "disk full"), Tok("ws", "\n")>>
    /\ Len(errors) = 1
    /\ errors[1].timestamp = Some(1123456)

\* a stack-trace match starts at i: an error keyword that no earlier match
\* of its kind has consumed (a match runs up to the next date)
PyMatchAt(i) ==
    /\ log_content[i].k = "py"
    /\ \A j \in 1..(i - 1) :
          (log_content[j].k = "py" /\ log_content[j].w = log_content[i].w)
             => \E m \in (j + 1)..(i - 1) : log_content[m].k = "ts"

\* the position of the first timestamp before position i
FirstTsBefore(i) == Least({j \in 1..(i - 1) : log_content[j].k = "ts"})

\* C8 as claimed: in both passes a matched span whose timestamp text does
\* not parse is in the result, with no timestamp.
C8_UnparsedKept ==
    ppc = "done" =>
      /\ \A i \in 1..(Len(log_content) - 1) :
            (/\ log_content[i].k = "ts"
             /\ log_content[i + 1].k = "ado"
             /\ ~ParseTimestamp(log_content[i]).has)
            => \E n \in 1..Len(errors) :
                  /\ errors[n].error_type = "ADO Error"
                  /\ ~errors[n].timestamp.has
                  /\ errors[n].message = Strip(Slice(log_content, i + 2, SpanEnd(log_content, i)))
      /\ \A i \in 1..Len(log_content) :
            (/\ PyMatchAt(i)
             /\ \E j \in 1..(i - 1) : log_content[j].k = "ts"
             /\ ~ParseTimestamp(log_content[FirstTsBefore(i)]).has)
            => \E n \in 1..Len(errors) :
                  /\ errors[n].error_type = log_content[i].w
                  /\ ~errors[n].timestamp.has
                  /\ errors[n].message = Strip(Slice(log_content, i, SpanEnd(log_content, i)))

\* the position of the last timestamp before position i
LastTsBefore(i) == Greatest({j \in 1..(i - 1) : log_content[j].k = "ts"})

\* C17 as claimed: every span of the stack-trace pass carries the timestamp
\* nearest before its match (here for texts whose timestamps all parse), and
\* none exactly when no timestamp precedes the match.
C17_NearestPreceding ==
    ppc = "done" =>
      \A i \in 1..Len(log_content) :
         (/\ PyMatchAt(i)
          /\ \A j \in 1..(i - 1) :
                log_content[j].k = "ts" => ParseTimestamp(log_content[j]).has)
         => \E n \in 1..Len(errors) :
               /\ errors[n].error_type = log_content[i].w
               /\ errors[n].message = Strip(Slice(log_content, i, SpanEnd(log_content, i)))
               /\ errors[n].timestamp =
                     IF \E j \in 1..(i - 1) : log_content[j].k = "ts"
                     THEN ParseTimestamp(log_content[LastTsBefore(i)])
                     ELSE None

-----------------------------------------------------------------------------
(* Archive flattener: utils/artifacts_util.py                              *)
(*                                                                         *)
(* A file name is a token sequence such as <<"a", ".json">>; a path is a   *)
(* sequence of names below the extraction directory, <<>> being the        *)
(* extraction directory itself.  A node is a directory or a file; a file   *)
(* holds a JSON value (json), and a .zip file an archive (zip): a function *)
(* from relative paths to nodes.                                           *)
(***************************************************************************)

NoJson == [tag |-> "none", val |-> ""]
BadJson == [tag |-> "bad", val |-> ""]

DirNode == [type |-> "dir", json |-> NoJson, zip |-> NoKeys]
JsonNode(v) == [type |-> "file", json |-> v, zip |-> NoKeys]
ZipNode(arch) == [type |-> "file", json |-> NoJson, zip |-> arch]

\* os.path.basename and os.path.dirname
Basename(path) == path[Len(path)]
Dirname(path) == Slice(path, 1, Len(path) - 1)

\* os.path.splitext(name)[0]: the name without its extension token
Stem(name) ==
    IF Len(name) >= 2 /\ name[Len(name)] \in {".json", ".zip", ".txt"}
    THEN Slice(name, 1, Len(name) - 1)
    ELSE name

\* zip_ref.extractall(dir): the archive's entries laid over the tree
ExtractAll(tree, dir, arch) ==
    LET new == {dir \o q : q \in DOMAIN arch}
    IN  [p \in DOMAIN tree \cup {dir} \cup new |->
            IF p \in new THEN arch[Slice(p, Len(dir) + 1, Len(p))]
            ELSE IF p = dir THEN DirNode
            ELSE tree[p]]

RECURSIVE Perms(_)
\* the orders in which a directory may list the paths of S: os.walk gives
\* the file system's order, which the program does not control
Perms(S) ==
    IF S = {} THEN {<<>>}
    ELSE UNION {{<<p>> \o t : t \in Perms(S \ {p})} : p \in S}

\* the entries of directory dir of one type, in each order os.walk may list them
Entries(tree, dir, type) ==
    Perms({p \in DOMAIN tree :
              /\ Len(p) = Len(dir) + 1
              /\ Slice(p, 1, Len(dir)) = dir
              /\ tree[p].type = type})

\* the state process_file works on: the tree, the processed set, the
\* fragments and their source paths appended so far, and whether an
\* exception is propagating.  process_file yields the set of states it may
\* end in, one for each way the directories it walks are listed.
RECURSIVE ProcessFile(_, _, _)
RECURSIVE ProcessEach(_, _, _)
RECURSIVE WalkInner(_, _, _)
RECURSIVE WalkEach(_, _, _)

\* process_file without the test of lines 133-135
ProcessFileNoDedup(path, name, st) ==
    IF st.raised THEN {st}
    ELSE
      LET st1 == [st EXCEPT !.processed = @ \cup {path}]                \* line 140
          base == Basename(path)
          add == [st1 EXCEPT !.frags = Append(@, [stem |-> Stem(base),
                                                   content |-> st.tree[path].json]),
                             !.srcs = Append(@, path)]
      IN  IF EndsWith(base, ".zip") THEN
              LET extraction_dir == Dirname(path) \o <<Stem(base)>>
                  st2 == [st1 EXCEPT !.tree = ExtractAll(@, extraction_dir, st.tree[path].zip)]
              IN  WalkInner(extraction_dir, name, st2)
          ELSE IF EndsWith(base, ".json") THEN
              IF Contains(name, <<"embeddings">>) /\ ~Contains(base, <<"alpha">>) THEN {st1}
              ELSE IF st.tree[path].json.tag = "bad" THEN {[st1 EXCEPT !.raised = TRUE]}
              ELSE {add}
          ELSE {st1}

\* process_file(file_path, artifact_name, processed_files), lines 122-175
ProcessFile(path, name, st) ==
    IF st.raised THEN {st}
    ELSE IF path \in st.processed THEN {st}                              \* lines 133-135
    ELSE
      LET st1 == [st EXCEPT !.processed = @ \cup {path}]                \* line 140
          base == Basename(path)
          add == [st1 EXCEPT !.frags = Append(@, [stem |-> Stem(base),
                                                   content |-> st.tree[path].json]),
                             !.srcs = Append(@, path)]
      IN  IF EndsWith(base, ".zip") THEN                                 \* lines 142-155
              LET extraction_dir == Dirname(path) \o <<Stem(base)>>
                  st2 == [st1 EXCEPT !.tree = ExtractAll(@, extraction_dir, st.tree[path].zip)]
              IN  WalkInner(extraction_dir, name, st2)
          ELSE IF EndsWith(base, ".json") THEN                           \* lines 157-173
              IF Contains(name, <<"embeddings">>) /\ ~Contains(base, <<"alpha">>) THEN {st1}
              ELSE IF st.tree[path].json.tag = "bad" THEN {[st1 EXCEPT !.raised = TRUE]}
              ELSE {add}
          ELSE {st1}

\* process_file on each path of a list, in order, from each state of sts
ProcessEach(paths, name, sts) ==
    IF paths = <<>> THEN sts
    ELSE ProcessEach(Tail(paths), name,
                     UNION {ProcessFile(Head(paths), name, st) : st \in sts})

\* the os.walk loop of lines 151-155 from directory dir on: the directory is
\* listed when the walk reaches it, its files are processed, then its
\* directories, and the walk goes on into the directories it listed
WalkInner(dir, name, st) ==
    IF st.raised THEN {st}
    ELSE UNION {WalkEach(dirs, name,
                         ProcessEach(dirs, name, ProcessEach(files, name, {st}))) :
                  files \in Entries(st.tree, dir, "file"),
                  dirs \in Entries(st.tree, dir, "dir")}

\* os.walk going into each listed directory in turn, from each state of sts
WalkEach(dirs, name, sts) ==
    IF dirs = <<>> THEN sts
    ELSE WalkEach(Tail(dirs), name,
                  UNION {WalkInner(Head(dirs), name, st) : st \in sts})

-----------------------------------------------------------------------------
(* process_artifact as a state machine *)

\* how deep archives are nested in the artifact
NestDepth == 2

DepthVal == <<"{c1}", "{c2}", "{c3}", "{c4}">>

RECURSIVE Nest(_)
\* an archive holding c.json and, below the innermost level, inner.zip (the
\* archive one level down) next to a directory inner/ holding e.json
Nest(n) ==
    (<< <<"c", ".json">> >> :> JsonNode(DictVal(DepthVal[n])))
    @@ (IF n > 1
        THEN (<< <<"inner", ".zip">> >> :> ZipNode(Nest(n - 1)))
             @@ (<< <<"inner">> >> :> DirNode)
             @@ (<< <<"inner">>, <<"e", ".json">> >> :> JsonNode(DictVal("{e}")))
        ELSE NoKeys)

\* what the artifact may hold at its top level
TopEntries ==
    << (<< <<"a", ".json">> >> :> JsonNode(DictVal("{a}"))),
       (<< <<"alpha", "_b", ".json">> >> :> JsonNode(DictVal("{b}"))),
       (<< <<"bad", ".json">> >> :> JsonNode(BadJson)),
       (<< <<"inner", ".zip">> >> :> ZipNode(Nest(NestDepth))),
       ((<< <<"inner">> >> :> DirNode)
          @@ (<< <<"inner">>, <<"c", ".json">> >> :> JsonNode(DictVal("{old}")))
          @@ (<< <<"inner">>, <<"f", ".json">> >> :> JsonNode(DictVal("{f}")))),
       ((<< <<"sub">> >> :> DirNode)
          @@ (<< <<"sub">>, <<"f", ".json">> >> :> JsonNode(ListVal("[f]")))
          @@ (<< <<"sub">>, <<"notes", ".txt">> >> :> JsonNode(NoJson))) >>

RECURSIVE Gather(_, _)
\* the archive made of the top-level entries numbered in S
Gather(S, n) ==
    IF n = 0 THEN NoKeys
    ELSE IF n \in S THEN TopEntries[n] @@ Gather(S, n - 1)
    ELSE Gather(S, n - 1)

ArtifactNames == { <<"x64_ov", "_", "qp">>, <<"x64_ov", "_", "embeddings", "_d3">> }

\* the scratch directory is extraction_dir itself, the path <<>>
ExtractionDir == <<>>

AInit ==
    /\ OIdle
    /\ RIdle
    /\ PIdle
    /\ DIdle
    /\ \E S \in SUBSET (1..Len(TopEntries)), kind \in {"zip", "notzip", "corrupt"} :
          artifact = [kind |-> kind, content |-> Gather(S, Len(TopEntries))]
    /\ artifact_name \in ArtifactNames
    /\ fs = NoKeys
    /\ processed_files = {}                              \* line 66
    /\ out_file = [exists |-> FALSE, frags |-> <<>>]
    /\ walk_stack = <<>>
    /\ walk_files = <<>>
    /\ contributed = <<>>
    /\ last_call = [path |-> <<>>, seen |-> FALSE, frags |-> <<>>]
    /\ apc = "start"

\* the members of arch that extractall, failing on one member, may have
\* written: any of the members with the directories above them
Written(arch) ==
    {W \in SUBSET DOMAIN arch :
        \A p \in W : \A n \in 1..(Len(p) - 1) : Slice(p, 1, n) \in W}

\* lines 78-79 on an archive that is_zipfile accepts and extractall fails on:
\* the scratch directory with the members written before the failure, the
\* failing member among them, with unreadable content, when its bytes were
\* written
PartlyExtracted(arch) ==
    {[p \in W \cup {ExtractionDir} |->
         IF p = ExtractionDir THEN DirNode
         ELSE IF p \in failing THEN JsonNode(BadJson)
         ELSE arch[p]] :
       W \in Written(arch),
       failing \in {{}} \cup {{p} : p \in {q \in DOMAIN arch : arch[q].type = "file"}}}

\* lines 70-80: the scratch directory is made, the artifact validated and
\* extracted
Extract ==
    /\ apc = "start"
    /\ IF artifact.kind \in {"notzip", "missing"} THEN   \* lines 74-76
            /\ fs' = (ExtractionDir :> DirNode)
            /\ apc' = "early"
            /\ UNCHANGED walk_stack
       ELSE IF artifact.kind = "corrupt" THEN           \* extractall raised
            /\ fs' \in PartlyExtracted(artifact.content)
            /\ apc' = "failed"
            /\ UNCHANGED walk_stack
       ELSE /\ fs' = ExtractAll((ExtractionDir :> DirNode), ExtractionDir, artifact.content)
            /\ walk_stack' = <<ExtractionDir>>
            /\ apc' = "walk"
    /\ UNCHANGED <<artifact, artifact_name, processed_files, out_file, walk_files,
                   contributed, last_call, rvars, pvars, dvars, ovars>>

\* line 83: os.walk lists the next directory
ListDir ==
    /\ apc = "walk"
    /\ walk_files = <<>>
    /\ walk_stack # <<>>
    /\ walk_files' \in Entries(fs, Head(walk_stack), "file")
    /\ \E dirs \in Entries(fs, Head(walk_stack), "dir") :
          walk_stack' = dirs \o Tail(walk_stack)
    /\ UNCHANGED <<artifact, artifact_name, fs, processed_files, out_file,
                   contributed, last_call, apc, rvars, pvars, dvars, ovars>>

\* write_combined_json_to_file, lines 112-120
write_combined_json_to_file(combined_json, file) ==
    IF combined_json # <<>> THEN [exists |-> TRUE, frags |-> combined_json] ELSE file

\* lines 84-88 for the next file of the listed directory
ProcessOne ==
    /\ apc = "walk"
    /\ walk_files # <<>>
    /\ \E st \in ProcessFile(Head(walk_files), artifact_name,
                             [tree |-> fs, processed |-> processed_files,
                              frags |-> <<>>, srcs |-> <<>>, raised |-> FALSE]) :
       LET file_path == Head(walk_files)
       IN  /\ fs' = st.tree
           /\ processed_files' = st.processed
           /\ contributed' = contributed \o st.srcs
           /\ last_call' = [path |-> file_path, seen |-> file_path \in processed_files,
                            frags |-> st.frags]
           /\ IF st.raised THEN                          \* lines 92-93
                   /\ apc' = "failed"
                   /\ UNCHANGED out_file
              ELSE /\ out_file' = write_combined_json_to_file(st.frags, out_file)
                   /\ apc' = apc
    /\ walk_files' = Tail(walk_files)
    /\ UNCHANGED <<artifact, artifact_name, walk_stack, rvars, pvars, dvars, ovars>>

\* line 90: the walk is over
LoopEnd ==
    /\ apc = "walk"
    /\ walk_files = <<>>
    /\ walk_stack = <<>>
    /\ apc' = "walked"
    /\ UNCHANGED <<artifact, artifact_name, fs, processed_files, out_file,
                   walk_stack, walk_files, contributed, last_call, rvars, pvars, dvars, ovars>>

\* lines 95-99 as an epilogue of the success path only
CleanupOnSuccessOnly ==
    /\ apc \in {"early", "failed", "walked"}
    /\ fs' = IF apc = "walked" /\ ExtractionDir \in DOMAIN fs THEN NoKeys ELSE fs
    /\ apc' = CASE apc = "walked" -> "done"
                [] apc = "early" -> "done_early"
                [] apc = "failed" -> "done_failed"
    /\ UNCHANGED <<artifact, artifact_name, processed_files, out_file,
                   walk_stack, walk_files, contributed, last_call, rvars, pvars, dvars, ovars>>

\* lines 95-99: the finally clause removes the scratch directory
Cleanup ==
    /\ apc \in {"early", "failed", "walked"}
    /\ fs' = IF ExtractionDir \in DOMAIN fs THEN NoKeys ELSE fs
    /\ apc' = CASE apc = "walked" -> "done"
                [] apc = "early" -> "done_early"
                [] apc = "failed" -> "done_failed"
    /\ UNCHANGED <<artifact, artifact_name, processed_files, out_file,
                   walk_stack, walk_files, contributed, last_call, rvars, pvars, dvars, ovars>>

\* what delete_artifact may be given: the downloaded archive, the output
\* file, the scratch directory, or a path that does not exist
DeleteTargets == {"artifact", "output", "extraction_dir", "nothing"}

\* delete_artifact(artifact_path), lines 101-110, called before or after a
\* process_artifact call: the file or the directory tree at the path is
\* removed, and a path that does not exist is only logged
delete_artifact(target) ==
    /\ apc \in {"start", "done", "done_early", "done_failed"}
    /\ artifact' = IF target = "artifact"
                   THEN [kind |-> "missing", content |-> NoKeys]
                   ELSE artifact
    /\ out_file' = IF target = "output"
                   THEN [exists |-> FALSE, frags |-> <<>>]
                   ELSE out_file
    /\ fs' = IF target = "extraction_dir" THEN NoKeys ELSE fs
    /\ UNCHANGED <<artifact_name, processed_files, walk_stack, walk_files,
                   contributed, last_call, apc, rvars, pvars, dvars, ovars>>

DeleteArtifact == \E target \in DeleteTargets : delete_artifact(target)

ANext == Extract \/ ListDir \/ ProcessOne \/ LoopEnd \/ Cleanup \/ DeleteArtifact

SpecArtifact == AInit /\ [][ANext]_vars

-----------------------------------------------------------------------------
(* Properties of the flattener *)

\* the JSON files of the extracted tree that the embeddings/alpha filter lets through
WantedJson ==
    {p \in DOMAIN fs :
        /\ fs[p].type = "file"
        /\ Len(p) >= 1
        /\ p[Len(p)][Len(p[Len(p)])] = ".json"
        /\ (\E i \in 1..Len(artifact_name) : artifact_name[i] = "embeddings")
              => (\E i \in 1..Len(p[Len(p)]) : p[Len(p)][i] = "alpha")}

\* C4 as claimed: when the walk has ended without error, <artifact_name>.json
\* holds one {fileStem: content} fragment for every JSON file found anywhere
\* in the artifact, nested archives included.
C4_OutputAccumulated ==
    (apc = "walked" /\ WantedJson # {}) =>
        /\ out_file.exists
        /\ Len(out_file.frags) = Cardinality(WantedJson)
        /\ \A p \in WantedJson :
              \E i \in 1..Len(out_file.frags) :
                 /\ out_file.frags[i].content = fs[p].json
                 /\ out_file.frags[i].stem \o <<".json">> = p[Len(p)]

\* C5: during the flattening of one artifact no path contributes a fragment
\* twice, and a process_file call on a path already in the processed set
\* returns no fragments and leaves the path in the set.
C5_Dedup ==
    /\ \A i \in 1..Len(contributed), j \in 1..Len(contributed) :
          contributed[i] = contributed[j] => i = j
    /\ last_call.seen =>
          /\ last_call.frags = <<>>
          /\ last_call.path \in processed_files

\* C5 witness: the outer walk reached a JSON file that the walk of an
\* extracted nested archive had already processed
C5_Witness ==
    /\ last_call.seen
    /\ Len(last_call.path) = 2
    /\ last_call.path[2] = <<"c", ".json">>
    /\ \E i \in 1..Len(contributed) : contributed[i] = last_call.path

\* process_artifact has returned
Returned == apc \in {"done", "done_early", "done_failed"}

\* C12: whenever process_artifact has returned, by the success path, the
\* invalid-archive early return or an exception, nothing is left of the
\* extraction directory or of any nested extraction directory under it.
C12_ScratchRemoved == Returned => DOMAIN fs = {}

\* a flattening that extracted a nested archive and then failed on a file
C12_Witness ==
    /\ apc = "done_failed"
    /\ DOMAIN fs = {}
    /\ \E p \in processed_files : Len(p) >= 2

-----------------------------------------------------------------------------
(* Persistence adapter: database/push_data.py, push_data_to_specific_db    *)
(*                                                                         *)
(* A row of grfxml_workloads carries the columns the statements bind:      *)
(* name, architecture, testresult, azurepipelineid and typeofapp stand for *)
(* the row; the remaining columns are set from the record in the same way  *)
(* as testresult.                                                          *)
(***************************************************************************)

\* the number of records of a pushed list
MaxDbRecords == 3

\* the number of pushes of the same run
MaxPushes == 2

db_platform == "x64_ov"

OtherRun == "163000"

\* the Status the records of push number n carry
StatusOf(n) == IF n = 1 THEN "failed" ELSE IF n = 2 THEN "succeeded" ELSE "canceled"

\* the list pushed by push number n: the first records of the platform's matrix
PushedRecords(n) ==
    [k \in 1..MaxDbRecords |->
        [TestcaseName  |-> TestcaseName("Evaluation", db_platform, models[k]),
         Architecture  |-> db_platform,
         Status        |-> StatusOf(n),
         PipelineRunID |-> build_id]]

Row(name, architecture, testresult, run) ==
    [name |-> name, architecture |-> architecture, testresult |-> testresult,
     azurepipelineid |-> run, typeofapp |-> "ps-evals"]

\* lines 46-54: SELECT COUNT(*) ... WHERE azurepipelineid = %s AND typeofapp = 'ps-evals'
CountRows(rows, run) ==
    Cardinality({r \in rows : r.azurepipelineid = run /\ r.typeofapp = "ps-evals"})

\* lines 63-95: the UPDATE statement with its parameters
UpdateRow(rows, record) ==
    {IF /\ r.azurepipelineid = record.PipelineRunID
        /\ r.typeofapp = "ps-evals"
        /\ r.name = record.TestcaseName
     THEN [r EXCEPT !.name = record.TestcaseName,
                    !.architecture = record.Architecture,
                    !.testresult = record.Status]
     ELSE r : r \in rows}

\* lines 98-136: the INSERT statement with its parameters
InsertRow(rows, record) ==
    rows \cup {Row(record.TestcaseName, record.Architecture, record.Status,
                   record.PipelineRunID)}

\* the rows a table may hold before the first push: any rows of this run left
\* by an earlier push, and a row of another run
OldRows ==
    {Row(TestcaseName("Evaluation", db_platform, models[k]), db_platform, "Skipped", build_id) :
        k \in 1..MaxDbRecords}
    \cup {Row(TestcaseName("Evaluation", db_platform, models[1]), db_platform, "failed", OtherRun)}

DInit ==
    /\ OIdle
    /\ RIdle
    /\ PIdle
    /\ AIdle
    /\ table \in SUBSET OldRows
    /\ txn = table
    /\ records = <<>>
    /\ exists = FALSE
    /\ next_record = 1
    /\ written = {}
    /\ failed = {}
    /\ pushes = 0
    /\ dpc = "ready"

\* lines 33-54: the connection is obtained and the existence check made;
\* without a connection the push returns at line 42
PushBegin ==
    /\ dpc \in {"ready", "pushed"}
    /\ pushes < MaxPushes
    /\ pushes' = pushes + 1
    /\ records' = PushedRecords(pushes + 1)
    /\ written' = {}
    /\ failed' = {}
    /\ next_record' = 1
    /\ \E connected \in BOOLEAN :
          IF connected
          THEN /\ exists' = (CountRows(table, build_id) > 0)
               /\ dpc' = "loop"
          ELSE /\ exists' = FALSE
               /\ dpc' = "noconn"
    /\ UNCHANGED <<table, txn, rvars, pvars, avars, ovars>>

\* lines 58-139 for one record: the statement and the commit succeed
WriteRecord ==
    /\ dpc = "loop"
    /\ next_record <= Len(records)
    /\ LET after == IF exists THEN UpdateRow(txn, records[next_record])
                    ELSE InsertRow(txn, records[next_record])
       IN  /\ txn' = after
           /\ table' = after                             \* conn.commit()
    /\ written' = written \cup {next_record}
    /\ next_record' = next_record + 1
    /\ UNCHANGED <<records, exists, failed, pushes, dpc, rvars, pvars, avars, ovars>>

\* lines 141-143: the statement or the commit raises; the handler, which
\* encloses the loop, rolls the open transaction back and the push returns
WriteFails ==
    /\ dpc = "loop"
    /\ next_record <= Len(records)
    /\ txn' = table                                      \* conn.rollback()
    /\ failed' = failed \cup {next_record}
    /\ dpc' = "pushed"
    /\ UNCHANGED <<table, records, exists, next_record, written, pushes, rvars, pvars, avars, ovars>>

\* the loop of line 58 ends and the push returns
PushEnd ==
    /\ dpc = "loop"
    /\ next_record > Len(records)
    /\ dpc' = "pushed"
    /\ UNCHANGED <<table, txn, records, exists, next_record, written, failed, pushes,
                   rvars, pvars, avars, ovars>>

\* line 42: the push returns without a connection
NoConnection ==
    /\ dpc = "noconn"
    /\ dpc' = "pushed"
    /\ UNCHANGED <<table, txn, records, exists, next_record, written, failed, pushes,
                   rvars, pvars, avars, ovars>>

DNext == PushBegin \/ WriteRecord \/ WriteFails \/ PushEnd \/ NoConnection

SpecDb == DInit /\ [][DNext]_vars

-----------------------------------------------------------------------------
(* Properties of the persistence adapter *)

\* the rows of the table under a record's key
RowsOf(record) ==
    {r \in table : /\ r.azurepipelineid = record.PipelineRunID
                   /\ r.typeofapp = "ps-evals"
                   /\ r.name = record.TestcaseName}

\* C9 as claimed: after a push in which every record was written and no write
\* failed, every record of the list has exactly one row under its key, and
\* the row holds the record's values, whatever the table held before.
C9_Upsert ==
    (dpc = "pushed" /\ failed = {} /\ written = 1..Len(records) /\ records # <<>>) =>
        \A k \in 1..Len(records) :
           /\ Cardinality(RowsOf(records[k])) = 1
           /\ \A r \in RowsOf(records[k]) :
                 /\ r.testresult = records[k].Status
                 /\ r.architecture = records[k].Architecture

\* C10 as claimed: when the write of one record fails, the rows committed for
\* earlier records stay and every later record is still written.
C10_ContinuesAfterFailure ==
    (dpc = "pushed" /\ failed # {}) =>
        /\ \A k \in 1..Len(records) : k \notin failed => k \in written
        /\ \A k \in written : ~exists =>
              \E r \in RowsOf(records[k]) : r.testresult = records[k].Status

-----------------------------------------------------------------------------
(* Run boundary: utils/data_util.py, process_run_data                      *)
(*                                                                         *)
(* The uploaded file is described by what process_run_data looks at: its   *)
(* suffix, whether it opens as an archive, and what the archive holds      *)
(* under logs and artifacts (a directory, a plain file, or nothing).       *)
(***************************************************************************)

EntryKinds == {"dir", "file", "absent"}

ZipPathPool ==
    [suffix : BOOLEAN, archive : {"good", "corrupt"}, logs : EntryKinds,
     artifacts : EntryKinds]

\* os.path.isdir of an entry extracted from the archive
IsDir(kind) == kind = "dir"

XInit ==
    /\ RIdle
    /\ PIdle
    /\ AIdle
    /\ DIdle
    /\ FIdle
    /\ UIdle
    /\ CIdle
    /\ zip_path \in ZipPathPool
    /\ data_dir \in {"absent", "stale"}
    /\ steps = <<>>
    /\ xpc = "start"

\* lines 65-68: the suffix test
Validate ==
    /\ xpc = "start"
    /\ xpc' = IF zip_path.suffix THEN "validated" ELSE "raised"   \* ValueError
    /\ UNCHANGED <<zip_path, data_dir, steps, notx>>

\* lines 71-80: DATA_DIR is wiped, created again and the archive extracted
ExtractRun ==
    /\ xpc = "validated"
    /\ IF zip_path.archive = "good"
       THEN /\ data_dir' = "extracted"
            /\ xpc' = "extracted"
       ELSE \* BadZipFile: raised when the archive is opened, or by
            \* extractall after it has written some or all of the members
            /\ data_dir' \in {"empty", "partial", "extracted"}
            /\ xpc' = "raised"
    /\ UNCHANGED <<zip_path, steps, notx>>

\* lines 83-86 with the test of line 85 lost
CheckDirsLogsOnly ==
    /\ xpc = "extracted"
    /\ xpc' = IF ~IsDir(zip_path.logs) THEN "raised" ELSE "checked"
    /\ UNCHANGED <<zip_path, data_dir, steps, notx>>

\* lines 83-86: both subdirectories are required
CheckDirs ==
    /\ xpc = "extracted"
    /\ xpc' = IF ~IsDir(zip_path.logs) THEN "raised"               \* FileNotFoundError
              ELSE IF ~IsDir(zip_path.artifacts) THEN "raised"     \* FileNotFoundError
              ELSE "checked"
    /\ UNCHANGED <<zip_path, data_dir, steps, notx>>

\* line 89: process_all_artifacts; failures of the flattener are logged
\* there and do not reach the run boundary
FlattenAll ==
    /\ xpc = "checked"
    /\ steps' = Append(steps, "flatten")
    /\ xpc' = "flattened"
    /\ UNCHANGED <<zip_path, data_dir, notx>>

\* line 90: process_data, which catches every exception (lines 52-54)
ProcessData ==
    /\ xpc = "flattened"
    /\ steps' = Append(steps, "reconcile")
    /\ xpc' = "processed"
    /\ UNCHANGED <<zip_path, data_dir, notx>>

\* line 91: push_data_to_db, whose exceptions are raised again (lines 97-99)
PushData ==
    /\ xpc = "processed"
    /\ steps' = Append(steps, "push")
    /\ xpc' \in {"returned", "raised"}
    /\ UNCHANGED <<zip_path, data_dir, notx>>

XNext == Validate \/ ExtractRun \/ CheckDirs \/ FlattenAll \/ ProcessData \/ PushData

SpecRun == XInit /\ [][XNext]_vars

-----------------------------------------------------------------------------
(* Properties of the run boundary *)

\* the input is structurally invalid: the path does not end in .zip, or the
\* extracted archive lacks the logs or the artifacts subdirectory
StructurallyInvalid ==
    \/ ~zip_path.suffix
    \/ /\ zip_path.archive = "good"
       /\ zip_path.logs # "dir" \/ zip_path.artifacts # "dir"

\* C11: on a structurally invalid input process_run_data never gets past its
\* checks, never returns normally, and performs no artifact flattening, no
\* reconciliation and no database write; once its checks are done it has
\* raised.
C11_FailFast ==
    StructurallyInvalid =>
        /\ steps = <<>>
        /\ xpc \in {"start", "validated", "extracted", "raised"}
        /\ (xpc = "validated" => zip_path.suffix)
        /\ (xpc = "extracted" => zip_path.suffix /\ zip_path.archive = "good")

\* a run whose archive holds logs but no artifacts directory has raised
C11_Witness ==
    /\ xpc = "raised"
    /\ zip_path.suffix
    /\ zip_path.archive = "good"
    /\ zip_path.logs = "dir"
    /\ zip_path.artifacts = "absent"
    /\ data_dir = "extracted"

-----------------------------------------------------------------------------
(* fetch_performance_data as a state machine: one call on given arguments  *)
(* and a given content of the combined-artifact directory                  *)

\* the longest directory listing given to the locator
MaxFiles == 2

TestcaseNamePool ==
    { EvalQpOv,
      PredQpOv,
      TestcaseName("Evaluation", "arm64_npu", <<"embeddings", "_d3">>),
      <<"Evaluation", "_", "qp">>,
      <<"x", ".", "Evaluation", "_", "Evaluation", "_", "qp", ".", "y">> }

FilePool ==
    { File(<<"x64_ov", "_", "qp", ".json">>, ListVal("[ov-qp]")),
      File(<<"x64_ov", "_", "qp", ".zip">>, [tag |-> "bad", val |-> ""]),
      File(<<"x64_ov", "_", "qp", "_2", ".json">>, [tag |-> "bad", val |-> ""]),
      File(<<"arm64_npu", "_", "embeddings", "_d3", "_c", ".json">>, DictVal("{npu-d3c}")),
      File(<<"arm64_npu", "_", "embeddings", "_d3", ".json">>, DictVal("{npu-d3}")) }

FInit ==
    /\ RIdle
    /\ PIdle
    /\ AIdle
    /\ DIdle
    /\ XIdle
    /\ UIdle
    /\ CIdle
    /\ loc_architecture \in {"x64_ov", "arm64_npu"}
    /\ loc_testcase \in TestcaseNamePool
    /\ combined_json_dir \in
          {[exists |-> FALSE, files |-> <<>>]}
          \cup {[exists |-> TRUE, files |-> q] : q \in SeqsUpTo(FilePool, MaxFiles)}
    /\ combined_data = [tag |-> "none", val |-> ""]
    /\ lpc = "start"

\* lines 19-54: the call
Fetch ==
    /\ lpc = "start"
    /\ combined_data' = fetch_performance_data(loc_architecture, loc_testcase,
                                               combined_json_dir)
    /\ lpc' = "returned"
    /\ UNCHANGED <<loc_architecture, loc_testcase, combined_json_dir, notf>>

FNext == Fetch

SpecLocate == FInit /\ [][FNext]_vars

-----------------------------------------------------------------------------
(* Properties of the locator *)

\* the model identifier: the second dot-delimited segment of the test-case
\* name with "Evaluation_" removed
ModelIdentifier == Remove(Split(loc_testcase, ".")[2], <<"Evaluation", "_">>)

HasDot == \E i \in 1..Len(loc_testcase) : loc_testcase[i] = "."

\* the files, by position in the listing, whose name contains both the
\* architecture and the model identifier
NameMatches ==
    {i \in 1..Len(combined_json_dir.files) :
        /\ Contains(combined_json_dir.files[i].name, <<loc_architecture>>)
        /\ Contains(combined_json_dir.files[i].name, ModelIdentifier)}

\* those of them whose name ends in .json
JsonNameMatches ==
    {i \in NameMatches :
        LET n == combined_json_dir.files[i].name IN n[Len(n)] = ".json"}

\* C14 as claimed: the result is empty for a name without '.', and otherwise
\* the parsed content of the first file in listing order whose name contains
\* both the architecture and the model identifier, or empty when no file
\* matches.
C14_Original ==
    lpc = "returned" =>
        IF ~HasDot THEN combined_data = EmptyDict
        ELSE IF NameMatches = {} THEN combined_data = EmptyDict
        ELSE /\ combined_json_dir.files[Least(NameMatches)].content.tag # "bad"
             /\ combined_data = combined_json_dir.files[Least(NameMatches)].content

\* C14 amended: only files whose name ends in .json are candidates, and the
\* result is empty also when the first candidate cannot be parsed.
C14_FirstJsonMatch ==
    lpc = "returned" =>
        IF ~HasDot THEN combined_data = EmptyDict
        ELSE IF JsonNameMatches = {} THEN combined_data = EmptyDict
        ELSE LET first == combined_json_dir.files[Least(JsonNameMatches)]
             IN  IF first.content.tag = "bad" THEN combined_data = EmptyDict
                 ELSE combined_data = first.content

\* a call that passed over a matching name not ending in .json and returned
\* the content of the .json file listed after it
C14_Witness ==
    /\ lpc = "returned"
    /\ HasDot
    /\ NameMatches # JsonNameMatches
    /\ Least(NameMatches) < Least(JsonNameMatches \cup {MaxFiles + 1})
    /\ combined_data = ListVal("[ov-qp]")

-----------------------------------------------------------------------------
(* Error annotator: utils/logs_util.py, update_error_info                  *)
(*                                                                         *)
(* A log file is given by its name and by the list of error spans that     *)
(* parse_azure_pipeline_log returns for its text, in the returned order.   *)
(* Record ids and file names are token sequences, "_" being a token.       *)
(***************************************************************************)

IntVal(t) == [tag |-> "int", val |-> t]

\* lines 107-112 with the two tests swapped
ErrorTypeCodeEvaluationFirst(fields) ==
    LET name == IF "TestcaseName" \in DOMAIN fields THEN fields.TestcaseName ELSE <<>>
    IN  IF Contains(name, <<"Evaluation">>) THEN IntVal("3")
        ELSE IF Contains(name, <<"Prediction">>) THEN IntVal("2")
        ELSE IntVal("1")

\* lines 107-112: the error-type code of a record
ErrorTypeCode(fields) ==
    LET name == IF "TestcaseName" \in DOMAIN fields THEN fields.TestcaseName ELSE <<>>
    IN  IF Contains(name, <<"Prediction">>) THEN IntVal("2")
        ELSE IF Contains(name, <<"Evaluation">>) THEN IntVal("3")
        ELSE IntVal("1")

\* line 106 with the comparison lost
IdMatchesAny(fields, log_file) == Len(Split(log_file.name, "_")[1]) >= 0

\* line 106: record["id"] == log_file.split('_')[0]
IdMatches(fields, log_file) == fields.id = Split(log_file.name, "_")[1]

\* line 106 raises: the record is not a mapping, or has no "id"
IdRaises(entry) == entry.kind # "dict" \/ "id" \notin DOMAIN entry.fields

RECURSIVE AnnotateList(_, _, _, _)
\* lines 105-116 for one error and one platform's list, from record i on:
\* the list as left, and whether an exception ended the loop
AnnotateList(recs, i, log_file, error) ==
    IF i > Len(recs) THEN [recs |-> recs, raised |-> FALSE]
    ELSE IF IdRaises(recs[i]) THEN [recs |-> recs, raised |-> TRUE]
    ELSE IF IdMatches(recs[i].fields, log_file)
         THEN AnnotateList(
                 [recs EXCEPT ![i].fields =
                     Update(@, [ErrorType |-> ErrorTypeCode(@),
                                ErrorMessage |-> error.message])],
                 i + 1, log_file, error)
         ELSE AnnotateList(recs, i + 1, log_file, error)

RECURSIVE AnnotatePlatforms(_, _, _, _, _)
\* lines 104-116 for one error, from the j-th key of the mapping on
AnnotatePlatforms(body, ord, j, log_file, error) ==
    IF j > Len(ord) THEN [body |-> body, raised |-> FALSE]
    ELSE LET r == AnnotateList(body[ord[j]], 1, log_file, error)
             b == [body EXCEPT ![ord[j]] = r.recs]
         IN  IF r.raised THEN [body |-> b, raised |-> TRUE]
             ELSE AnnotatePlatforms(b, ord, j + 1, log_file, error)

RECURSIVE AnnotateErrors(_, _, _, _)
\* lines 103-116 for one log file, from its k-th error on
AnnotateErrors(pd, ord, log_file, k) ==
    IF k > Len(log_file.errors) THEN [pd |-> pd, raised |-> FALSE]
    ELSE IF pd.kind # "dict"
         THEN \* iterating a list yields its elements; indexing the list by
              \* one of them raises TypeError
              [pd |-> pd, raised |-> Len(pd.elems) > 0]
    ELSE LET r == AnnotatePlatforms(pd.body, ord, 1, log_file, log_file.errors[k])
             q == [pd EXCEPT !.body = r.body]
         IN  IF r.raised THEN [pd |-> q, raised |-> TRUE]
             ELSE AnnotateErrors(q, ord, log_file, k + 1)

RECURSIVE TxtFiles(_)
\* line 95: the files of the listing whose name ends in .txt
TxtFiles(lst) ==
    IF lst = <<>> THEN <<>>
    ELSE (IF EndsWith(Head(lst).name, ".txt") THEN <<Head(lst)>> ELSE <<>>)
         \o TxtFiles(Tail(lst))

(* Inputs of the annotator *)

\* the longest list of actual records given to the annotator for a platform
MaxAnnRecords == 2

\* the longest listing of the logs directory
MaxLogs == 2

PredEval == <<"Prediction", "_", "Evaluation", ".", "x">>

AnnEntryPool ==
    { DictEntry([TestcaseName |-> EvalQpOv, Status |-> "failed", id |-> <<"12">>]),
      DictEntry([TestcaseName |-> PredQpOv, Status |-> "succeeded", id |-> <<"12">>]),
      DictEntry([TestcaseName |-> PredEval, Status |-> "failed", id |-> <<"13">>]),
      DictEntry([id |-> <<"12">>]),
      DictEntry([TestcaseName |-> EvalQpOv, Status |-> "succeeded"]),
      DictEntry([TestcaseName |-> EvalQpOv, Status |-> "failed", id |-> <<"14">>,
                 ErrorType |-> IntVal("7"), ErrorMessage |-> "own"]),
      [kind |-> "other", fields |-> [junk |-> "x"]] }

Span(message, error_type, timestamp) ==
    [message |-> message, error_type |-> error_type, timestamp |-> timestamp]

LogFile(name, errs) == [name |-> name, errors |-> errs]

LogPool ==
    { LogFile(<<"12", "_", "build", ".txt">>,
              << Span("disk full", "ADO error", Some(Micros(1, 0))),
                 Span("Traceback: oom", "Python error", None) >>),
      LogFile(<<"12", "_", "test", ".txt">>,
              << Span("timeout", "Python error", Some(Micros(0, 5))) >>),
      LogFile(<<"13", "_", "build", ".txt">>,
              << Span("link failed", "ADO error", None) >>),
      LogFile(<<"12", "_", "clean", ".txt">>, <<>>),
      LogFile(<<"13", "_", "build", ".log">>,
              << Span("ignored", "ADO error", None) >>) }

AnnDataPool ==
    {[kind |-> "list", body |-> NoKeys, elems |-> <<>>],
     [kind |-> "list", body |-> NoKeys, elems |-> NpuList],
     [kind |-> "dict", body |-> NoKeys, elems |-> <<>>]}
    \cup {[kind |-> "dict", body |-> [p \in {"x64_ov"} |-> q], elems |-> <<>>] :
             q \in SeqsUpTo(AnnEntryPool, MaxAnnRecords)}
    \cup {[kind |-> "dict", elems |-> <<>>,
           body |-> [p \in {"x64_ov", "arm64_npu"} |-> IF p = "x64_ov" THEN <<a>> ELSE <<b>>]] :
             a \in AnnEntryPool, b \in AnnEntryPool}

\* the orders in which a mapping may yield its keys
KeyOrders(pd) ==
    IF pd.kind # "dict" \/ DOMAIN pd.body = {} THEN {<<>>}
    ELSE IF Cardinality(DOMAIN pd.body) = 1 THEN {<<k>> : k \in DOMAIN pd.body}
    ELSE {<<k1, k2>> : k1 \in DOMAIN pd.body, k2 \in DOMAIN pd.body} \ 
         {<<k, k>> : k \in DOMAIN pd.body}

\* the reconciler's variables other than pipeline_data before any call
RRestIdle ==
    /\ metadata = [kind |-> "dict", body |-> NoKeys]
    /\ listing = [exists |-> FALSE, files |-> <<>>]
    /\ data = [p \in PlatformSet |-> <<>>]
    /\ valid_records = NoKeys
    /\ rpc = "idle"
    /\ rcur = <<1, 1>>

UInit ==
    /\ RRestIdle
    /\ PIdle
    /\ AIdle
    /\ DIdle
    /\ XIdle
    /\ FIdle
    /\ CIdle
    /\ pipeline_data \in AnnDataPool
    /\ platform_order \in KeyOrders(pipeline_data)
    /\ given = pipeline_data
    /\ logs_dir \in SeqsUpTo(LogPool, MaxLogs)
    /\ log_files = <<>>
    /\ ulog = 1
    /\ upc = "start"

\* line 95: the listing of the logs directory
ListLogs ==
    /\ upc = "start"
    /\ log_files' = TxtFiles(logs_dir)
    /\ upc' = "loop"
    /\ UNCHANGED <<pipeline_data, logs_dir, platform_order, given, ulog, notu>>

\* lines 99-116 for the log file under the cursor; an exception leaves the
\* loop for the handler of line 117
AnnotateLog ==
    /\ upc = "loop"
    /\ ulog <= Len(log_files)
    /\ LET r == AnnotateErrors(pipeline_data, platform_order, log_files[ulog], 1)
       IN  /\ pipeline_data' = r.pd
           /\ upc' = IF r.raised THEN "caught" ELSE "loop"
    /\ ulog' = ulog + 1
    /\ UNCHANGED <<logs_dir, log_files, platform_order, given, notu>>

\* line 120: the (possibly partly updated) pipeline data is returned
AnnotateEnd ==
    /\ \/ upc = "loop" /\ ulog > Len(log_files)
       \/ upc = "caught"
    /\ upc' = "done"
    /\ UNCHANGED <<pipeline_data, logs_dir, log_files, platform_order, given, ulog, notu>>

UNext == ListLogs \/ AnnotateLog \/ AnnotateEnd

SpecAnnotate == UInit /\ [][UNext]_vars

-----------------------------------------------------------------------------
(* Properties of the annotator *)

\* every record of the pipeline data, as <<platform, index>>
AnnCells ==
    IF given.kind # "dict" THEN {}
    ELSE UNION {{<<p, i>> : i \in 1..Len(given.body[p])} : p \in DOMAIN given.body}

\* the code the specification derives from a test-case name
CodeOfName(name) ==
    IF \E i \in 1..Len(name) : name[i] = "Prediction" THEN IntVal("2")
    ELSE IF \E i \in 1..Len(name) : name[i] = "Evaluation" THEN IntVal("3")
    ELSE IntVal("1")

\* the test-case name of a record as passed, empty when it has none
GivenName(c) ==
    IF "TestcaseName" \in DOMAIN given.body[c[1]][c[2]].fields
    THEN given.body[c[1]][c[2]].fields.TestcaseName
    ELSE <<>>

\* C15: a record that update_error_info has written to carries the code
\* derived from its test-case name alone, whatever the kind, message or
\* timestamp of the span written, and no other field than ErrorType and
\* ErrorMessage has changed.
C15_CodeByNameOnly ==
    \A c \in AnnCells :
       LET r == pipeline_data.body[c[1]][c[2]]
           g == given.body[c[1]][c[2]]
       IN  r # g =>
             /\ r.fields.ErrorType = CodeOfName(GivenName(c))
             /\ DOMAIN r.fields = DOMAIN g.fields \cup {"ErrorType", "ErrorMessage"}
             /\ \A f \in DOMAIN g.fields \ {"ErrorType", "ErrorMessage"} :
                   r.fields[f] = g.fields[f]

\* a record whose name holds both "Prediction" and "Evaluation" was given
\* code 2 from a bracketed-error span without timestamp, and a record without
\* a name code 1 from a stack-trace span
C15_Witness ==
    /\ upc = "done"
    /\ \E c \in AnnCells :
          /\ GivenName(c) = PredEval
          /\ pipeline_data.body[c[1]][c[2]] # given.body[c[1]][c[2]]
          /\ pipeline_data.body[c[1]][c[2]].fields.ErrorType = IntVal("2")
          /\ pipeline_data.body[c[1]][c[2]].fields.ErrorMessage = "link failed"
    /\ \E c \in AnnCells :
          /\ GivenName(c) = <<>>
          /\ pipeline_data.body[c[1]][c[2]] # given.body[c[1]][c[2]]
          /\ pipeline_data.body[c[1]][c[2]].fields.ErrorType = IntVal("1")
          /\ pipeline_data.body[c[1]][c[2]].fields.ErrorMessage = "timeout"

\* the .txt log files with at least one span whose first underscore-delimited
\* name segment equals the id of the record as passed, by position in the
\* listing
MatchingLogs(c) ==
    LET g == given.body[c[1]][c[2]]
    IN  IF g.kind # "dict" \/ "id" \notin DOMAIN g.fields THEN {}
        ELSE {j \in 1..Len(logs_dir) :
                /\ logs_dir[j].name[Len(logs_dir[j].name)] = ".txt"
                /\ logs_dir[j].errors # <<>>
                /\ <<logs_dir[j].name[1]>> = g.fields.id
                /\ Len(logs_dir[j].name) >= 2 /\ logs_dir[j].name[2] = "_"}

\* C18 as claimed: when update_error_info returns, every record whose id
\* matches a log file with spans holds the message of the last span of the
\* (last such) file, and every record whose id matches no such file is as it
\* was passed, whatever other records the input contains.
C18_LastWriteWins ==
    upc = "done" =>
      \A c \in AnnCells :
         LET r == pipeline_data.body[c[1]][c[2]]
             m == MatchingLogs(c)
         IN  IF m = {} THEN r = given.body[c[1]][c[2]]
             ELSE LET f == logs_dir[Greatest(m)]
                  IN  /\ "ErrorMessage" \in DOMAIN r.fields
                      /\ r.fields.ErrorMessage = f.errors[Len(f.errors)].message

-----------------------------------------------------------------------------
(* Connection manager: database/config.py, DatabaseConnector               *)
(*                                                                         *)
(* self._connections maps an IHV to "absent" (no such key), "none" (the    *)
(* key is present with value None), "open" (a usable connection) or        *)
(* "broken" (a connection object that is closed or no longer usable).      *)
(***************************************************************************)

\* the IHVs the calls are made with: the known ones and an unknown one
IhvPool == DB_HOSTS \cup {"Other"}

Result(op, ihv, outcome, state) ==
    [op |-> op, ihv |-> ihv, outcome |-> outcome, state |-> state]

CInit ==
    /\ RIdle
    /\ PIdle
    /\ AIdle
    /\ DIdle
    /\ XIdle
    /\ FIdle
    /\ UIdle
    /\ CIdle

\* lines 34-73: get_connection(ihv)
GetConnection(ihv) ==
    IF ihv \notin DB_HOSTS THEN                           \* lines 34-36
        /\ conn_result' = Result("get", ihv, "none", "")
        /\ UNCHANGED connections
    ELSE IF connections[ihv] = "none" THEN
        \* line 42: None has no cursor(); AttributeError is not among the
        \* exceptions of line 45
        /\ conn_result' = Result("get", ihv, "raised", "")
        /\ UNCHANGED connections
    ELSE IF connections[ihv] = "open" THEN                \* lines 42-44
        /\ conn_result' = Result("get", ihv, "reused", connections[ihv])
        /\ UNCHANGED connections
    ELSE \E connected \in BOOLEAN :                       \* lines 51-73
        IF connected
        THEN /\ connections' = [connections EXCEPT ![ihv] = "open"]
             /\ conn_result' = Result("get", ihv, "created", "open")
        ELSE \* a broken entry was set to None at line 48
             /\ connections' = [connections EXCEPT ![ihv] =
                                   IF @ = "absent" THEN "absent" ELSE "none"]
             /\ conn_result' = Result("get", ihv, "none", "")

\* lines 82-89: the entry of one IHV after close_connection
Closed(entry) == IF entry \in {"absent", "none"} THEN entry ELSE "none"

GetCall ==
    /\ \E ihv \in IhvPool : GetConnection(ihv)
    /\ UNCHANGED notc

\* lines 75-89: close_connection(ihv)
CloseConnection ==
    /\ \E ihv \in IhvPool :
          /\ connections' = [k \in DB_HOSTS |->
                                IF k = ihv THEN Closed(connections[k]) ELSE connections[k]]
          /\ conn_result' = Result("close", ihv, "", "")
    /\ UNCHANGED notc

\* lines 91-94: close_all_connections(), as called by push_data_to_db
\* (push_data.py line 21)
CloseAllConnections ==
    /\ connections' = [k \in DB_HOSTS |-> Closed(connections[k])]
    /\ conn_result' = Result("close_all", "", "", "")
    /\ UNCHANGED notc

\* the server or the network ends an open connection
ConnectionDrops ==
    /\ \E ihv \in DB_HOSTS :
          /\ connections[ihv] = "open"
          /\ connections' = [connections EXCEPT ![ihv] = "broken"]
    /\ conn_result' = Result("drop", "", "", "")
    /\ UNCHANGED notc

CNext == GetCall \/ CloseConnection \/ CloseAllConnections \/ ConnectionDrops

SpecConnector == CInit /\ [][CNext]_vars

-----------------------------------------------------------------------------
(* Properties of the connection manager *)

\* C16 as claimed: a get_connection call for a known IHV reuses an open
\* connection, creates one, or returns None; it never raises and the
\* connection it returns is open.
C16_GetNeverRaises ==
    (conn_result.op = "get" /\ conn_result.ihv \in DB_HOSTS) =>
        /\ conn_result.outcome \in {"reused", "created", "none"}
        /\ conn_result.outcome \in {"reused", "created"} => conn_result.state = "open"

-----------------------------------------------------------------------------
(* One pass of process_data (utils/data_util.py lines 44-46): the actual   *)
(* records are annotated by update_error_info, then reconciled by          *)
(* generate_testcase_data; what follows (lines 48-54) writes the result    *)
(* to a file and returns it.                                               *)
(***************************************************************************)

PassEntryPool ==
    { DictEntry([TestcaseName |-> EvalQpOv, Status |-> "failed", id |-> <<"12">>]),
      DictEntry([TestcaseName |-> PredQpOv, Status |-> "succeeded", id |-> <<"12">>]),
      DictEntry([TestcaseName |-> EvalQpOv, Status |-> "succeeded", id |-> <<"13">>]),
      DictEntry([TestcaseName |-> EvalQpOv, Status |-> "succeeded"]),
      DictEntry([TestcaseName |-> PredQpOv, Status |-> "failed", id |-> <<"14">>,
                 ErrorType |-> IntVal("7"), ErrorMessage |-> "own"]),
      DictEntry([TestcaseName |-> <<"Other">>, Status |-> "failed", id |-> <<"12">>]) }

PassLogsPool ==
    { <<>>,
      << LogFile(<<"12", "_", "build", ".txt">>,
                 << Span("disk full", "ADO error", Some(Micros(1, 0))),
                    Span("Traceback: oom", "Python error", None) >>) >>,
      << LogFile(<<"13", "_", "build", ".txt">>,
                 << Span("link failed", "ADO error", None) >>),
         LogFile(<<"12", "_", "test", ".txt">>,
                 << Span("timeout", "Python error", Some(Micros(0, 5))) >>) >> }

PassInit ==
    /\ PIdle
    /\ AIdle
    /\ DIdle
    /\ XIdle
    /\ FIdle
    /\ CIdle
    /\ pipeline_data \in
          {[kind |-> "list", body |-> NoKeys, elems |-> <<>>]}          \* line 26
          \cup {[kind |-> "dict", body |-> [p \in {"x64_ov"} |-> q], elems |-> <<>>] :
                   q \in SeqsUpTo(PassEntryPool, MaxAnnRecords)}
    /\ platform_order \in KeyOrders(pipeline_data)
    /\ given = pipeline_data
    /\ logs_dir \in PassLogsPool
    /\ log_files = <<>>
    /\ ulog = 1
    /\ upc = "start"
    /\ metadata \in {[kind |-> "dict", body |-> NoKeys]}                \* line 36
    /\ listing \in
          {[exists |-> TRUE, files |->
               << File(<<"x64_ov", "_", "qp", ".json">>, ListVal("[ov-qp]")) >>]}
    /\ data = [p \in PlatformSet |-> <<>>]
    /\ valid_records = NoKeys
    /\ rpc = "start"
    /\ rcur = <<1, 1>>

\* line 46 follows line 45: the reconciler's steps once the annotator returned
PassMatrix == upc = "done" /\ BuildMatrix

PassLookup == upc = "done" /\ BuildLookup

PassMerge == upc = "done" /\ MergeRecord

PassNext == ListLogs \/ AnnotateLog \/ AnnotateEnd \/ PassMatrix \/ PassLookup \/ PassMerge

SpecPass == PassInit /\ [][PassNext]_vars

-----------------------------------------------------------------------------
(* Properties of a pass *)

\* the position of a platform in the configured order
PlatformIndex(p) == CHOOSE i \in 1..Len(platforms) : platforms[i] = p

\* the merge loop has passed the output record at <<platform, index>>
Passed(c) ==
    \/ rpc = "done"
    \/ /\ rpc = "merge"
       /\ \/ PlatformIndex(c[1]) < rcur[1]
          \/ PlatformIndex(c[1]) = rcur[1] /\ c[2] < rcur[2]

\* actual data was merged into the output record at <<platform, index>>
Merged(c) ==
    /\ Passed(c)
    /\ <<c[1], data[c[1]][c[2]].TestcaseName>> \in DOMAIN valid_records

\* the messages of the spans parsed from the log files
LogMessages ==
    UNION {{logs_dir[j].errors[n].message : n \in 1..Len(logs_dir[j].errors)} :
              j \in 1..Len(logs_dir)}

\* some actual record given under the output record's key has an id that
\* matches a log file with spans
LogMatched(c) ==
    \E a \in AnnCells :
        /\ a[1] = c[1]
        /\ GivenName(a) = data[c[1]][c[2]].TestcaseName
        /\ MatchingLogs(a) # {}

\* the state of an output record does not go back: what the merge wrote
\* stays, and a merged record stays merged
NoRevert ==
    \A c \in Cells :
       Merged(c) => /\ data'[c[1]][c[2]] = data[c[1]][c[2]]
                    /\ Merged(c)'

\* an output record never merged is the placeholder, and log-derived error
\* fields are only on merged records whose actual record matched a log file
StatesConsistent ==
    \A c \in Cells :
       LET r == data[c[1]][c[2]]
       IN  /\ ~Merged(c) => /\ r.Status = "Skipped"
                            /\ r.ErrorType = StrVal(NA)
                            /\ r.ErrorMessage = NA
           /\ r.ErrorMessage \in LogMessages => Merged(c) /\ LogMatched(c)

\* C19: within one pass every output record moves only forward: it is the
\* "Skipped" placeholder with ErrorType and ErrorMessage "N/A" until actual
\* data is merged into it, it carries log-derived error fields only if it
\* was merged and a log file matched, and once merged no later step changes
\* it back.
C19_Monotonic == []StatesConsistent /\ [][NoRevert]_vars

\* a finished pass with an output record that was merged, annotated from a
\* log file and given its metrics, and another left as placeholder
C19_Witness ==
    /\ rpc = "done"
    /\ \E c \in Cells :
          /\ Merged(c)
          /\ data[c[1]][c[2]].Status = "succeeded"
          /\ data[c[1]][c[2]].ErrorMessage = "link failed"
          /\ data[c[1]][c[2]].ErrorType = IntVal("3")
          /\ data[c[1]][c[2]].PerformanceMetrics = ListVal("[ov-qp]")
    /\ \E c \in Cells : ~Merged(c) /\ c[1] = "x64_ov"

====
